---- MODULE Spec2Model ----
(***************************************************************************)
(* HR / payroll backend (src/src/payroll-components.ts): the request       *)
(* handlers of the Express application and the rows of the relational      *)
(* store they read and write.  A handler is a process; every `await` on    *)
(* the store is one atomic step, so two requests interleave exactly where  *)
(* the event loop can interleave them.                                     *)
(*                                                                         *)
(* Strings are sequences of one-character strings, so that formatting      *)
(* (padStart, replace, slice) is computed the way the code computes it.    *)
(***************************************************************************)
EXTENDS Integers, Sequences, FiniteSets, TLC

VARIABLES
    cfg,          \* department_nik_config rows, keyed by department (unique on department_id)
    employees,    \* employees rows in insertion order
    clock,        \* milliseconds elapsed on the server clock (Date.now() offset)
    proc,         \* one NIK-related request per slot: position and local variables
    bulk,         \* the running POST /api/employees/bulk request
    leaves,       \* leave_requests rows
    quota,        \* the leave_quotas row (employee, year, 'tahunan')
    lproc,        \* one leave-request update (PUT) per slot
    credited,     \* history: how often each leave request was added to used_quota
    tz,           \* the server's local-time offset from UTC, in hours
    payrolls,     \* payrolls rows
    pproc,        \* one payroll request per slot
    components,   \* payroll_components rows
    salary,       \* the salary row of each employee
    cproc         \* one payroll calculation request per slot

vars == <<cfg, employees, clock, proc, bulk,
          leaves, quota, lproc, credited, tz, payrolls, pproc,
          components, salary, cproc>>

nikVars     == <<cfg, employees, clock, proc>>
calcVars    == <<components, salary, cproc>>
otherThanNik == <<bulk, leaves, quota, lproc, credited, tz, payrolls, pproc, calcVars>>
leaveVars   == <<leaves, quota, lproc, credited>>
payrollVars == <<tz, payrolls, pproc>>

-----------------------------------------------------------------------------
(* Bounds *)

MaxSeq    == 3    \* largest current_sequence the model lets a counter reach
MaxEmails == 2    \* distinct e-mail addresses (employees.email is unique)
MaxClock  == 1    \* largest reading of the millisecond clock

Procs  == {"r1", "r2"}     \* two requests in flight at once
Emails == 1..MaxEmails

-----------------------------------------------------------------------------
(* Strings *)

Null == <<>>     \* null / undefined / '' : the values a JS `if (s)` treats as absent

Digits == <<"0", "1", "2", "3", "4", "5", "6", "7", "8", "9">>

RECURSIVE NumToString(_)
\* Number.prototype.toString() / String(n) of a non-negative integer
NumToString(n) == IF n < 10 THEN <<Digits[n + 1]>>
               ELSE NumToString(n \div 10) \o <<Digits[(n % 10) + 1]>>

RECURSIVE PadStart(_, _)
\* String.prototype.padStart(len, '0'): longer strings are returned unchanged
PadStart(s, len) == IF Len(s) >= len THEN s ELSE PadStart(<<"0">> \o s, len)

\* the positions at which sub occurs in s
Occurrences(s, sub) ==
    {i \in 1..(Len(s) - Len(sub) + 1) : SubSeq(s, i, i + Len(sub) - 1) = sub}

\* String.prototype.includes
Includes(s, sub) == Occurrences(s, sub) # {}

Min(S) == CHOOSE x \in S : \A y \in S : x <= y

Range(f) == {f[i] : i \in DOMAIN f}

\* String.prototype.replace(sub, rep) with a string pattern: first occurrence only
Replace(s, sub, rep) ==
    IF ~Includes(s, sub) THEN s
    ELSE LET i == Min(Occurrences(s, sub))
         IN  SubSeq(s, 1, i - 1) \o rep \o SubSeq(s, i + Len(sub), Len(s))

\* String.prototype.slice(-n)
SliceLast(s, n) == IF Len(s) <= n THEN s ELSE SubSeq(s, Len(s) - n + 1, Len(s))

PrefixPlaceholder   == <<"{", "p", "r", "e", "f", "i", "x", "}">>
SequencePlaceholder == <<"{", "s", "e", "q", "u", "e", "n", "c", "e", "}">>
SentinelPattern     == <<"P", "R", "E", "F", "I", "X", " ", "+", " ",
                         "S", "E", "Q", "U", "E", "N", "C", "E">>
DashPattern         == PrefixPlaceholder \o <<"-">> \o SequencePlaceholder

\* the format_pattern values an administrator stores in the model
Patterns == {Null, SentinelPattern, DashPattern}

-----------------------------------------------------------------------------
(* Departments and NIK configurations *)

Depts       == {"Operational", "General"}      \* departemen rows
DeptNames   == Depts \cup {"Finance"}           \* names a caller may ask for
DefaultDept == "General"
None        == "none"

PrefixOf(d) == IF d = "Operational" THEN <<"O", "P", "S">> ELSE <<"G", "E", "N">>

DefaultSequenceLength == 3

NoCfg == [exists |-> FALSE, is_active |-> FALSE, prefix |-> Null,
          current_sequence |-> 0, sequence_length |-> 0, format_pattern |-> Null]

\* prisma.department_nik_config.findFirst({ where: { department_name | department_id, is_active: true } })
FindActiveConfig(name) ==
    IF name \in Depts /\ cfg[name].exists /\ cfg[name].is_active THEN name ELSE None

\* the zero-padded sequence of a configuration row
PaddedSequence(row) == PadStart(NumToString(row.current_sequence), row.sequence_length)

\* generate-next and bulk import: format_pattern with both placeholders is a template
FormatNik(row) ==
    IF row.format_pattern # Null
       /\ Includes(row.format_pattern, PrefixPlaceholder)
       /\ Includes(row.format_pattern, SequencePlaceholder)
    THEN Replace(Replace(row.format_pattern, PrefixPlaceholder, row.prefix),
                 SequencePlaceholder, PaddedSequence(row))
    ELSE row.prefix \o PaddedSequence(row)

\* POST /api/employees and fix-departments: prefix + padded sequence, whatever the pattern
PlainNik(prefix, seq, len) == prefix \o PadStart(NumToString(seq), len)

\* `EMP${Date.now().toString().slice(-n)}`; Date.now() is ClockEpoch followed by
\* the three digits of the milliseconds elapsed
ClockEpoch == <<"1", "7", "6", "2", "3", "5", "8", "4", "0", "0">>
NowString  == ClockEpoch \o PadStart(NumToString(clock), 3)
FallbackNik(n) == <<"E", "M", "P">> \o SliceLast(NowString, n)

-----------------------------------------------------------------------------
(* Request slots *)

IdleProc == [pc |-> "idle", op |-> None, dept |-> None, cfgId |-> None,
             cfgRow |-> NoCfg, nik |-> Null, status |-> 0, email |-> 0,
             given |-> FALSE, todo |-> <<>>, cur |-> 0, nIssued |-> 0,
             overlap |-> FALSE, valid |-> FALSE]

\* a slot's record with some fields replaced
Step(p, changes) ==
    proc' = [proc EXCEPT ![p] = [f \in DOMAIN IdleProc |->
                 IF f \in DOMAIN changes THEN changes[f] ELSE proc[p][f]]]

Respond(p, code, changes) ==
    Step(p, changes @@ [pc |-> "done", status |-> code])

-----------------------------------------------------------------------------
(* POST /api/department-nik-configs/:departmentName/generate-next *)

\* the name of the department whose active configuration is the fallback
FallbackConfigNameOperational == "Operational"
FallbackConfigName == DefaultDept

\* history: at the moment p reads configuration c, another request has read c
\* and not yet written it
ReadsBesideAnother(p, c) ==
    \E q \in Procs \ {p} : proc[q].pc = "g_update" /\ proc[q].cfgId = c

\* the value the handler writes to current_sequence: the value it read, plus one
NextSequenceOfStored(read, stored) == stored + 1
NextSequence(read, stored) == read + 1

GenStart(p) ==
    /\ proc[p].pc = "idle"
    /\ \E name \in DeptNames :
          Step(p, [pc |-> "g_lookup", op |-> "generate-next", dept |-> name])
    /\ UNCHANGED <<cfg, employees, clock, otherThanNik>>

\* let config = await findFirst({ department_name: departmentName, is_active: true })
GenLookup(p) ==
    /\ proc[p].pc = "g_lookup"
    /\ LET c == FindActiveConfig(proc[p].dept)
       IN  IF c # None
           THEN Step(p, [pc |-> "g_update", cfgId |-> c, cfgRow |-> cfg[c],
                         overlap |-> ReadsBesideAnother(p, c)])
           ELSE Step(p, [pc |-> "g_fallback"])
    /\ UNCHANGED <<cfg, employees, clock, otherThanNik>>

\* if (!config) config = await findFirst({ department_name: 'General', is_active: true });
\* if (!config) return 404
GenFallback(p) ==
    /\ proc[p].pc = "g_fallback"
    /\ LET c == FindActiveConfig(FallbackConfigName)
       IN  IF c # None
           THEN Step(p, [pc |-> "g_update", cfgId |-> c, cfgRow |-> cfg[c],
                         overlap |-> ReadsBesideAnother(p, c)])
           ELSE Respond(p, 404, <<>>)
    /\ UNCHANGED <<cfg, employees, clock, otherThanNik>>

\* nextNIK is formatted from the row that was read; then
\* await update({ where: { id }, data: { current_sequence: config.current_sequence + 1 } })
GenUpdate(p) ==
    /\ proc[p].pc = "g_update"
    /\ LET c   == proc[p].cfgId
           row == proc[p].cfgRow
       IN  IF ~cfg[c].exists
           THEN \* the row was deleted meanwhile: update throws, catch answers 500
                /\ Respond(p, 500, <<>>)
                /\ UNCHANGED cfg
           ELSE /\ NextSequence(row.current_sequence, cfg[c].current_sequence) <= MaxSeq
                /\ cfg' = [cfg EXCEPT ![c].current_sequence =
                              NextSequence(row.current_sequence, @)]
                /\ Respond(p, 200, [nik |-> FormatNik(row), nIssued |-> 1])
    /\ UNCHANGED <<employees, clock, otherThanNik>>

-----------------------------------------------------------------------------
(* POST /api/department-nik-configs/validate-format *)

Ops   == <<"O", "P", "S">>
Ops19 == Ops \o <<"1", "9">>

AllDigits(s) == \A i \in DOMAIN s : s[i] \in Range(Digits)

\* new RegExp('^' + prefix + '[0-9]{n}$').test(input), for a prefix of letters
\* and digits
TestPrefixDigits(input, prefix, n) ==
    /\ Len(input) = Len(prefix) + n
    /\ SubSeq(input, 1, Len(prefix)) = prefix
    /\ AllDigits(SubSeq(input, Len(prefix) + 1, Len(input)))

\* /^OPS[0-9]{3}$/.test(nik_input) || /^OPS19[0-9]{3}$/.test(nik_input)
TestOperational(input) ==
    TestPrefixDigits(input, Ops, 3) \/ TestPrefixDigits(input, Ops19, 3)

\* '[0-9]{' + config.sequence_length + '}'
DigitClass(n) == <<"[", "0", "-", "9", "]", "{">> \o NumToString(n) \o <<"}">>

\* config.format_pattern.replace('{prefix}', prefix).replace('{sequence}', '[0-9]{n}')
ExpectedFormat(row) ==
    Replace(Replace(row.format_pattern, PrefixPlaceholder, row.prefix),
            SequencePlaceholder, DigitClass(row.sequence_length))

\* new RegExp('^' + text.replace(/[.*+?^${}()|[\]\\]/g, '\\$&') + '$').test(input):
\* every special character of the text is escaped, the digit class included, so
\* the expression matches the text itself and nothing else
TestEscaped(input, text) == input = text

\* isValid of the handler
IsValidFormat(name, row, input) ==
    IF row.format_pattern # Null
    THEN IF row.format_pattern = SentinelPattern
         THEN IF name = "Operational"
              THEN TestOperational(input)
              ELSE TestPrefixDigits(input, row.prefix, row.sequence_length)
         ELSE IF /\ Includes(row.format_pattern, PrefixPlaceholder)
                 /\ Includes(row.format_pattern, SequencePlaceholder)
         THEN IF name = "Operational" /\ row.prefix = Ops19
              THEN TestOperational(input)
              ELSE TestEscaped(input, ExpectedFormat(row))
         ELSE TestEscaped(input, ExpectedFormat(row))
    ELSE IF name = "Operational"
         THEN TestOperational(input)
         ELSE TestPrefixDigits(input, row.prefix, row.sequence_length)

\* if (!nik_input || !department_name) return 400
ValStart(p, names, inputs) ==
    /\ proc[p].pc = "idle"
    /\ \E name \in names, input \in inputs :
          IF input = Null
          THEN Respond(p, 400, [op |-> "validate-format", dept |-> name, nik |-> input])
          ELSE Step(p, [pc |-> "v_dept", op |-> "validate-format", dept |-> name,
                        nik |-> input])
    /\ UNCHANGED <<cfg, employees, clock, otherThanNik>>

\* const department = await prisma.departemen.findFirst({ where: { nama } })
ValDept(p) ==
    /\ proc[p].pc = "v_dept"
    /\ IF proc[p].dept \in Depts
       THEN Step(p, [pc |-> "v_config"])
       ELSE Respond(p, 404, <<>>)
    /\ UNCHANGED <<cfg, employees, clock, otherThanNik>>

\* let config = await findFirst({ department_id: department.id, is_active: true });
\* 404 without one, otherwise { is_valid } is answered
ValConfig(p) ==
    /\ proc[p].pc = "v_config"
    /\ LET c == FindActiveConfig(proc[p].dept)
       IN  IF c = None
           THEN Respond(p, 404, <<>>)
           ELSE Respond(p, 200, [cfgId |-> c, cfgRow |-> cfg[c],
                                 valid |-> IsValidFormat(proc[p].dept, cfg[c], proc[p].nik)])
    /\ UNCHANGED <<cfg, employees, clock, otherThanNik>>

-----------------------------------------------------------------------------
(* POST /api/employees *)

ManualNik == <<"X", "1">>     \* a NIK typed in by the caller

NoNik(n) == n = Null

\* auto: the caller named a department and left the NIK to the server (history)
EmployeeRow(email, dept, nik, auto) ==
    [email |-> email, departemen_id |-> dept, nik |-> nik, auto |-> auto]

EmailTaken(email) == \E i \in 1..Len(employees) : employees[i].email = email

\* let nik = data.nik; if (!nik && data.departemen_id) { department lookup; config lookup }
EmpStart(p) ==
    /\ proc[p].pc = "idle"
    /\ \E email \in Emails, dept \in Depts \cup {None}, nik \in {Null, ManualNik} :
          Step(p, [pc |-> IF NoNik(nik) /\ dept # None THEN "e_lookup" ELSE "e_create",
                   op |-> "create-employee", email |-> email, dept |-> dept, nik |-> nik,
                   given |-> ~NoNik(nik)])
    /\ UNCHANGED <<cfg, employees, clock, otherThanNik>>

\* const nikConfig = await findFirst({ department_id, is_active: true });
\* if (nikConfig) nik = prefix + padded sequence
EmpLookup(p) ==
    /\ proc[p].pc = "e_lookup"
    /\ LET c == FindActiveConfig(proc[p].dept)
       IN  IF c # None
           THEN Step(p, [pc |-> "e_update", cfgId |-> c, cfgRow |-> cfg[c],
                         nik |-> PlainNik(cfg[c].prefix, cfg[c].current_sequence,
                                          cfg[c].sequence_length)])
           ELSE Step(p, [pc |-> "e_create"])
    /\ UNCHANGED <<cfg, employees, clock, otherThanNik>>

\* await update({ where: { id: nikConfig.id }, data: { current_sequence: nikConfig.current_sequence + 1 } })
EmpUpdate(p) ==
    /\ proc[p].pc = "e_update"
    /\ LET c   == proc[p].cfgId
           row == proc[p].cfgRow
       IN  IF ~cfg[c].exists
           THEN /\ Respond(p, 500, <<>>)
                /\ UNCHANGED cfg
           ELSE /\ NextSequence(row.current_sequence, cfg[c].current_sequence) <= MaxSeq
                /\ cfg' = [cfg EXCEPT ![c].current_sequence =
                              NextSequence(row.current_sequence, @)]
                /\ Step(p, [pc |-> "e_create", nIssued |-> 1])
    /\ UNCHANGED <<employees, clock, otherThanNik>>

\* const emp = await prisma.employees.create({ data: { ...employeeData, nik, departemen_id } })
EmpCreate(p) ==
    /\ proc[p].pc = "e_create"
    /\ IF EmailTaken(proc[p].email)
       THEN \* employees_email_key: create throws, catch answers 500
            /\ Respond(p, 500, <<>>)
            /\ UNCHANGED employees
       ELSE /\ employees' = Append(employees,
                   EmployeeRow(proc[p].email, proc[p].dept, proc[p].nik,
                               ~proc[p].given /\ proc[p].dept # None))
            /\ Respond(p, 201, <<>>)
    /\ UNCHANGED <<cfg, clock, otherThanNik>>

-----------------------------------------------------------------------------
(* POST /api/fix-departments *)

FixDept == "Operational"

\* the positions, from i on, of the rows of a department that have no NIK, in table order
RECURSIVE RowsWithoutNik(_, _, _)
RowsWithoutNik(rows, d, i) ==
    IF i > Len(rows) THEN <<>>
    ELSE (IF rows[i].departemen_id = d /\ NoNik(rows[i].nik) THEN <<i>> ELSE <<>>)
         \o RowsWithoutNik(rows, d, i + 1)

FixStart(p) ==
    /\ proc[p].pc = "idle"
    /\ Step(p, [pc |-> "f_assign", op |-> "fix-departments", dept |-> FixDept])
    /\ UNCHANGED <<cfg, employees, clock, otherThanNik>>

\* await prisma.employees.updateMany({ where: { departemen_id: null }, data: { departemen_id } })
FixAssign(p) ==
    /\ proc[p].pc = "f_assign"
    /\ employees' = [i \in 1..Len(employees) |->
                       IF employees[i].departemen_id = None
                       THEN [employees[i] EXCEPT !.departemen_id = FixDept]
                       ELSE employees[i]]
    /\ Step(p, [pc |-> "f_find"])
    /\ UNCHANGED <<cfg, clock, otherThanNik>>

\* const updatedEmployees = await findMany({ where: { departemen_id, nik: null } })
FixFind(p) ==
    /\ proc[p].pc = "f_find"
    /\ Step(p, [pc |-> "f_config", todo |-> RowsWithoutNik(employees, FixDept, 1)])
    /\ UNCHANGED <<cfg, employees, clock, otherThanNik>>

\* const nikConfig = await findFirst({ department_id, is_active: true });
\* if (nikConfig) { let currentSequence = nikConfig.current_sequence; ... }
FixConfig(p) ==
    /\ proc[p].pc = "f_config"
    /\ LET c == FindActiveConfig(FixDept)
       IN  IF c # None
           THEN Step(p, [pc |-> "f_loop", cfgId |-> c, cfgRow |-> cfg[c],
                         cur |-> cfg[c].current_sequence])
           ELSE Respond(p, 200, <<>>)
    /\ UNCHANGED <<cfg, employees, clock, otherThanNik>>

\* for (const employee of updatedEmployees) {
\*   nik = prefix + padded currentSequence; await employees.update({ nik }); currentSequence++ }
\* a store failure of the update throws out of the loop to the handler's catch (500)
FixLoop(p) ==
    /\ proc[p].pc = "f_loop"
    /\ proc[p].todo # <<>>
    /\ \E ok \in BOOLEAN :
          IF ok
          THEN /\ proc[p].cur + 1 <= MaxSeq
               /\ employees' = [employees EXCEPT ![Head(proc[p].todo)].nik =
                      PlainNik(proc[p].cfgRow.prefix, proc[p].cur,
                               proc[p].cfgRow.sequence_length)]
               /\ Step(p, [todo |-> Tail(proc[p].todo), cur |-> proc[p].cur + 1,
                            nIssued |-> proc[p].nIssued + 1])
          ELSE /\ Respond(p, 500, <<>>)
               /\ UNCHANGED employees
    /\ UNCHANGED <<cfg, clock, otherThanNik>>

\* after the loop: await update({ where: { id }, data: { current_sequence: currentSequence } })
FixUpdate(p) ==
    /\ proc[p].pc = "f_loop"
    /\ proc[p].todo = <<>>
    /\ IF ~cfg[proc[p].cfgId].exists
       THEN /\ Respond(p, 500, <<>>)
            /\ UNCHANGED cfg
       ELSE /\ cfg' = [cfg EXCEPT ![proc[p].cfgId].current_sequence = proc[p].cur]
            /\ Respond(p, 200, <<>>)
    /\ UNCHANGED <<employees, clock, otherThanNik>>

-----------------------------------------------------------------------------
(* Administration of department_nik_config; the response leaves no trace in the state *)

\* POST /api/department-nik-configs with is_active left out (it defaults to true);
\* a seq of 0 stands for a body without current_sequence
AdminCreateConfig(d, seqs, patterns) ==
    /\ ~cfg[d].exists
    /\ \E seq \in seqs, pattern \in patterns :
          cfg' = [cfg EXCEPT ![d] =
                    [exists |-> TRUE, is_active |-> TRUE, prefix |-> PrefixOf(d),
                     current_sequence |-> IF seq = 0 THEN 1 ELSE seq,
                     sequence_length |-> DefaultSequenceLength,
                     format_pattern |-> IF pattern = Null THEN SentinelPattern ELSE pattern]]
    /\ UNCHANGED <<employees, clock, proc, otherThanNik>>

\* PUT /api/department-nik-configs/:id with one field in the body (absent fields are kept)
AdminUpdateConfig(d, seqs, patterns) ==
    /\ cfg[d].exists
    /\ \/ \E seq \in seqs : cfg' = [cfg EXCEPT ![d].current_sequence = seq]
       \/ \E pattern \in patterns : cfg' = [cfg EXCEPT ![d].format_pattern = pattern]
       \/ \E active \in BOOLEAN : cfg' = [cfg EXCEPT ![d].is_active = active]
    /\ UNCHANGED <<employees, clock, proc, otherThanNik>>

\* PUT /api/department-nik-configs/:id with a prefix or a sequence_length in the
\* body: the handler stores what it is given
AdminUpdateFormat(d, prefixes, lengths) ==
    /\ cfg[d].exists
    /\ \/ \E prefix \in prefixes : cfg' = [cfg EXCEPT ![d].prefix = prefix]
       \/ \E len \in lengths : cfg' = [cfg EXCEPT ![d].sequence_length = len]
    /\ UNCHANGED <<employees, clock, proc, otherThanNik>>

\* DELETE /api/department-nik-configs/:id
AdminDeleteConfig(d) ==
    /\ cfg[d].exists
    /\ cfg' = [cfg EXCEPT ![d] = NoCfg]
    /\ UNCHANGED <<employees, clock, proc, otherThanNik>>

\* the response has been sent; the slot is free for the next request
Finish(p) ==
    /\ proc[p].pc = "done"
    /\ proc' = [proc EXCEPT ![p] = IdleProc]
    /\ UNCHANGED <<cfg, employees, clock, otherThanNik>>

\* time passes on the server clock
Tick ==
    /\ clock < MaxClock
    /\ clock' = clock + 1
    /\ UNCHANGED <<cfg, employees, proc, otherThanNik>>

-----------------------------------------------------------------------------
(* POST /api/employees/bulk, the first registration of the route (the one    *)
(* Express dispatches to).  The payload is read item by item: the model      *)
(* draws each item when the loop reaches it.  An await outside every try     *)
(* block that rejects leaves the async handler with an unhandled rejection:  *)
(* the loop stops and no response is written ("crashed").                    *)

MaxItems == 2     \* longest payload

NoUserEmail == 0  \* an address with no row in users

\* an item that fails the validation of the required columns and of the dates
NoItem == [valid |-> FALSE, email |-> NoUserEmail, department |-> None, nik |-> Null]

Items == {NoItem} \cup [valid : {TRUE}, email : Emails \cup {NoUserEmail},
                        department : Depts \cup {None}, nik : {Null, ManualNik}]

IdleBulk == [pc |-> "idle", n |-> 0, idx |-> 0, item |-> NoItem, results |-> <<>>,
             deptId |-> None, nik |-> Null, cfgId |-> None, cfgRow |-> NoCfg,
             status |-> 0, retried |-> FALSE, error |-> "none"]

\* `${nikCfg.prefix}${seq}` or the template, lines 1752-1755
BulkNik(row) ==
    IF row.format_pattern # Null
       /\ Includes(row.format_pattern, PrefixPlaceholder)
       /\ Includes(row.format_pattern, SequencePlaceholder)
    THEN Replace(Replace(row.format_pattern, PrefixPlaceholder, row.prefix),
                 SequencePlaceholder, PaddedSequence(row))
    ELSE row.prefix \o PaddedSequence(row)

AllSucceeded(results) == \A i \in 1..Len(results) : results[i]

\* the loop takes the next item, or, after the last one, answers:
\* 400 with the results if an item failed, 200 with the results otherwise;
\* error is history: what the create of the item just ended threw
BulkAdvance(results, error) ==
    IF bulk.idx >= bulk.n
    THEN bulk' = [IdleBulk EXCEPT !.pc = "done", !.n = bulk.n, !.idx = bulk.idx,
                                  !.results = results, !.error = error,
                                  !.status = IF AllSucceeded(results) THEN 200 ELSE 400]
    ELSE \E item \in Items :
           IF ~item.valid
           THEN \* results.push({ success: false, ... }); continue
                bulk' = [IdleBulk EXCEPT !.pc = "b_next", !.n = bulk.n,
                                         !.idx = bulk.idx + 1, !.item = item,
                                         !.error = error,
                                         !.results = Append(results, FALSE)]
           ELSE bulk' = [IdleBulk EXCEPT !.pc = "b_user", !.n = bulk.n,
                                         !.idx = bulk.idx + 1, !.item = item,
                                         !.error = error,
                                         !.results = results]

BulkContinue(results) == BulkAdvance(results, "none")

BulkFail == BulkContinue(Append(bulk.results, FALSE))

\* the catch of lines 1796-1798 after a create that threw
BulkCreateFailed(error) == BulkAdvance(Append(bulk.results, FALSE), error)

\* the NIK of the second create
RetryNikUnchanged == bulk.nik
RetryNik == FallbackNik(8)

\* an await that rejects outside the try block of lines 1779-1798
BulkCrash == bulk' = [bulk EXCEPT !.pc = "crashed"]

\* a payload of one of the given lengths arrives
BulkStartOf(sizes) ==
    /\ bulk.pc = "idle"
    /\ \E n \in sizes :
          bulk' = [IdleBulk EXCEPT !.pc = "b_next", !.n = n]
    /\ UNCHANGED <<nikVars, leaveVars, payrollVars, calcVars>>

BulkStart == BulkStartOf(1..MaxItems)

\* the head of the loop after an item that failed its validation
BulkNext ==
    /\ bulk.pc = "b_next"
    /\ BulkContinue(bulk.results)
    /\ UNCHANGED <<nikVars, leaveVars, payrollVars, calcVars>>

\* const user = await prisma.users.findFirst({ where: { email } })
BulkUser ==
    /\ bulk.pc = "b_user"
    /\ \E ok \in BOOLEAN :
          IF ~ok THEN BulkCrash
          ELSE IF bulk.item.email = NoUserEmail THEN BulkFail
          ELSE bulk' = [bulk EXCEPT !.pc = "b_existing"]
    /\ UNCHANGED <<nikVars, leaveVars, payrollVars, calcVars>>

\* const existingEmployee = await prisma.employees.findFirst({ OR: [user_id, email] })
BulkExisting ==
    /\ bulk.pc = "b_existing"
    /\ \E ok \in BOOLEAN :
          IF ~ok THEN BulkCrash
          ELSE IF EmailTaken(bulk.item.email) THEN BulkFail
          ELSE bulk' = [bulk EXCEPT !.pc = "b_dept"]
    /\ UNCHANGED <<nikVars, leaveVars, payrollVars, calcVars>>

\* try { departments = await findMany(); by name, else departments[0] } catch {}
\* then the NIK of the payload, or the configuration lookup, or the EMP fallback
BulkDept ==
    /\ bulk.pc = "b_dept"
    /\ \E ok \in BOOLEAN, first \in Depts :
          LET deptId == IF ~ok THEN None
                        ELSE IF bulk.item.department \in Depts THEN bulk.item.department
                        ELSE first
          IN  IF bulk.item.nik # Null
              THEN bulk' = [bulk EXCEPT !.pc = "b_create", !.deptId = deptId,
                                        !.nik = bulk.item.nik]
              ELSE IF deptId # None
              THEN bulk' = [bulk EXCEPT !.pc = "b_config", !.deptId = deptId]
              ELSE bulk' = [bulk EXCEPT !.pc = "b_create", !.deptId = deptId,
                                        !.nik = FallbackNik(6)]
    /\ UNCHANGED <<nikVars, leaveVars, payrollVars, calcVars>>

\* const nikCfg = await findFirst({ department_id, is_active: true })
BulkConfig ==
    /\ bulk.pc = "b_config"
    /\ \E ok \in BOOLEAN :
          IF ~ok THEN BulkCrash
          ELSE LET c == FindActiveConfig(bulk.deptId)
               IN  IF c # None
                   THEN bulk' = [bulk EXCEPT !.pc = "b_update", !.cfgId = c,
                                             !.cfgRow = cfg[c], !.nik = BulkNik(cfg[c])]
                   ELSE bulk' = [bulk EXCEPT !.pc = "b_create",
                                             !.nik = FallbackNik(6)]
    /\ UNCHANGED <<nikVars, leaveVars, payrollVars, calcVars>>

\* await update({ where: { id }, data: { current_sequence: nikCfg.current_sequence + 1 } })
BulkUpdate ==
    /\ bulk.pc = "b_update"
    /\ \E ok \in BOOLEAN :
          IF ~ok \/ ~cfg[bulk.cfgId].exists
          THEN BulkCrash /\ UNCHANGED cfg
          ELSE /\ NextSequence(bulk.cfgRow.current_sequence,
                                cfg[bulk.cfgId].current_sequence) <= MaxSeq
               /\ cfg' = [cfg EXCEPT ![bulk.cfgId].current_sequence =
                             NextSequence(bulk.cfgRow.current_sequence, @)]
               /\ bulk' = [bulk EXCEPT !.pc = "b_create"]
    /\ UNCHANGED <<employees, clock, proc, leaveVars, payrollVars, calcVars>>

BulkRow == EmployeeRow(bulk.item.email, bulk.deptId, bulk.nik, bulk.item.nik = Null)

\* created = await prisma.employees.create(...); a unique violation is answered by
\* one more create with nik = `EMP${Date.now().toString().slice(-8)}`
BulkCreate ==
    /\ bulk.pc = "b_create"
    /\ \E outcome \in {"ok", "unique", "error"} :
          LET error == IF outcome = "ok" /\ EmailTaken(bulk.item.email)
                       THEN "unique" ELSE outcome
          IN  IF error = "ok"
              THEN /\ employees' = Append(employees, BulkRow)
                   /\ bulk' = [bulk EXCEPT !.pc = "b_link", !.error = "none"]
              ELSE IF error = "unique" /\ bulk.nik # Null
              THEN /\ bulk' = [bulk EXCEPT !.pc = "b_retry", !.nik = RetryNik,
                                           !.retried = TRUE, !.error = error]
                   /\ UNCHANGED employees
              ELSE /\ BulkCreateFailed(error)
                   /\ UNCHANGED employees
    /\ UNCHANGED <<cfg, clock, proc, leaveVars, payrollVars, calcVars>>

\* the second create; its failure is the item's failure
BulkRetry ==
    /\ bulk.pc = "b_retry"
    /\ \E ok \in BOOLEAN :
          IF ok /\ ~EmailTaken(bulk.item.email)
          THEN /\ employees' = Append(employees, BulkRow)
               /\ bulk' = [bulk EXCEPT !.pc = "b_link", !.error = "none"]
          ELSE /\ BulkCreateFailed("retry")
               /\ UNCHANGED employees
    /\ UNCHANGED <<cfg, clock, proc, leaveVars, payrollVars, calcVars>>

\* await prisma.users.update({ data: { employee_id: created.id } }); results.push(success)
BulkLink ==
    /\ bulk.pc = "b_link"
    /\ \E ok \in BOOLEAN : BulkContinue(Append(bulk.results, ok))
    /\ UNCHANGED <<nikVars, leaveVars, payrollVars, calcVars>>

BulkFinish ==
    /\ bulk.pc = "done"
    /\ bulk' = IdleBulk
    /\ UNCHANGED <<nikVars, leaveVars, payrollVars, calcVars>>

-----------------------------------------------------------------------------
(* Leave requests and the annual quota                                      *)
(* start_date and end_date are DATE columns: days, counted from the server's *)
(* today (Asia/Jakarta), so day 0 is today and a negative day is in the past *)

MaxUsed    == 3    \* largest used_quota the model lets a quota reach
TotalQuota == 2    \* total_quota of the quota row the model starts with

LeaveProcs  == {"u1", "u2"}        \* two leave requests' handlers in flight at once
LeaveIds    == <<"a", "b">>        \* the ids the store hands to new leave_requests rows
StaffIds    == {"e1"}              \* employees that own leave requests and a quota
NoStaff     == "nobody"            \* a user id without an employees row
LeaveStatuses == {"PENDING", "APPROVED", "REJECTED"}
SickReason  == "Sakit"
AnnualType  == "tahunan"

\* leave_type.toLowerCase() on the leave types the model submits
ToLowerCase(t) == CASE t = "Tahunan" -> "tahunan"
                    [] t = "TAHUNAN" -> "tahunan"
                    [] t = "Sakit"   -> "sakit"
                    [] OTHER         -> t

NoLeave == [exists |-> FALSE, employee_id |-> None, leave_type |-> None,
            start_date |-> 0, end_date |-> 0, reason |-> None, status |-> None]

NoQuota == [exists |-> FALSE, total_quota |-> 0, used_quota |-> 0]

IdleLeaveProc == [pc |-> "idle", op |-> None, id |-> None, status |-> None,
                  req |-> NoLeave, old |-> NoLeave, read |-> NoQuota,
                  code |-> 0, overlap |-> FALSE]

LeaveStep(s, changes) ==
    lproc' = [lproc EXCEPT ![s] = [f \in DOMAIN IdleLeaveProc |->
                 IF f \in DOMAIN changes THEN changes[f] ELSE lproc[s][f]]]

\* the answer is sent: the handler's local variables are gone
LeaveRespond(s, code, changes) ==
    lproc' = [lproc EXCEPT ![s] = [f \in DOMAIN IdleLeaveProc |->
                 CASE f = "pc"   -> "done"
                   [] f = "code" -> code
                   [] f \in {"op", "id"} ->
                        IF f \in DOMAIN changes THEN changes[f] ELSE lproc[s][f]
                   [] OTHER -> IdleLeaveProc[f]]]

\* the number of nights between the two days
NightsBetween(start, end) == end - start

\* Math.ceil((end - start) / (1000*60*60*24)) + 1 on two whole days
InclusiveDays(start, end) == (end - start) + 1

IsPast(day) == day < 0

\* the same lookup with lt and gt in place of lte and gte
OverlapFoundExclusive(e, start, end) ==
    \E i \in DOMAIN LeaveIds :
        LET r == leaves[LeaveIds[i]]
        IN  /\ r.exists /\ r.employee_id = e
            /\ r.status \in {"PENDING", "APPROVED"}
            /\ r.start_date < end /\ r.end_date > start

\* findFirst({ employee_id, status in [PENDING, APPROVED],
\*             start_date <= end, end_date >= start })
OverlapFound(e, start, end) ==
    \E i \in DOMAIN LeaveIds :
        LET r == leaves[LeaveIds[i]]
        IN  /\ r.exists /\ r.employee_id = e
            /\ r.status \in {"PENDING", "APPROVED"}
            /\ r.start_date <= end /\ r.end_date >= start

\* the id the store gives the next row: the first one not in use
FreeLeaveId ==
    IF \E i \in DOMAIN LeaveIds : ~leaves[LeaveIds[i]].exists
    THEN LeaveIds[CHOOSE i \in DOMAIN LeaveIds :
                     /\ ~leaves[LeaveIds[i]].exists
                     /\ \A j \in 1..(i - 1) : leaves[LeaveIds[j]].exists]
    ELSE None

(* POST /api/leave-requests *)

\* validation, user -> employee lookup, start not before today
LeaveCreateStart(s, users, types, ranges, reasons, statuses) ==
    /\ lproc[s].pc = "idle"
    /\ \E u \in users, t \in types, rg \in ranges, rs \in reasons, st \in statuses :
          LET r == [exists |-> TRUE, employee_id |-> u, leave_type |-> t,
                    start_date |-> rg[1], end_date |-> rg[2], reason |-> rs,
                    status |-> st]
          IN  IF rg[1] > rg[2]
              THEN LeaveRespond(s, 400, [op |-> "create", req |-> r])
              ELSE IF u \notin StaffIds
              THEN LeaveRespond(s, 404, [op |-> "create", req |-> r])
              ELSE IF IsPast(rg[1])
              THEN LeaveRespond(s, 400, [op |-> "create", req |-> r])
              ELSE LeaveStep(s, [pc |-> "c_overlap", op |-> "create", req |-> r])
    /\ UNCHANGED <<leaves, quota, credited, nikVars, bulk, payrollVars, calcVars>>

\* const overlap = await findFirst(...); if (overlap) return 400
LeaveCreateOverlap(s) ==
    /\ lproc[s].pc = "c_overlap"
    /\ LET r == lproc[s].req
       IN  IF OverlapFound(r.employee_id, r.start_date, r.end_date)
           THEN LeaveRespond(s, 400, <<>>)
           ELSE LeaveStep(s, [pc |-> "c_quota"])
    /\ UNCHANGED <<leaves, quota, credited, nikVars, bulk, payrollVars, calcVars>>

\* the same condition without the test of the leave type
QuotaShortOfAnyType(q, days, leave_type) ==
    /\ q.exists
    /\ q.total_quota - q.used_quota < days

\* quota && quota.total_quota - quota.used_quota < days
\*       && leave_type.toLowerCase() === 'tahunan'
QuotaShort(q, days, leave_type) ==
    /\ q.exists
    /\ q.total_quota - q.used_quota < days
    /\ ToLowerCase(leave_type) = AnnualType

\* const quota = await findFirst(...); const days = ...;
\* if (quota && ...) return 400
LeaveCreateQuota(s) ==
    /\ lproc[s].pc = "c_quota"
    /\ LET r == lproc[s].req
           q == quota[r.employee_id]
           days == InclusiveDays(r.start_date, r.end_date)
       IN  IF QuotaShort(q, days, r.leave_type)
           THEN LeaveRespond(s, 400, <<>>)
           ELSE LeaveStep(s, [pc |-> "c_create"])
    /\ UNCHANGED <<leaves, quota, credited, nikVars, bulk, payrollVars, calcVars>>

\* await prisma.leave_requests.create({ data: payload }); the column default
\* gives a row without status the status PENDING
LeaveCreateRow(s) ==
    /\ lproc[s].pc = "c_create"
    /\ FreeLeaveId # None
    /\ LET r == lproc[s].req
           row == [r EXCEPT !.status = IF r.status = None THEN "PENDING" ELSE r.status]
       IN  /\ leaves' = [leaves EXCEPT ![FreeLeaveId] = row]
           /\ LeaveRespond(s, 201, [id |-> FreeLeaveId])
    /\ UNCHANGED <<quota, credited, nikVars, bulk, payrollVars, calcVars>>

(* PUT /api/leave-requests/:id *)

\* history: at the moment s reads the quota, another approval has read it and
\* not yet written it
ReadsQuotaBesideAnother(s, e) ==
    \E t \in LeaveProcs \ {s} :
        lproc[t].pc = "u_credit" /\ lproc[t].old.employee_id = e

\* the value the handler writes to used_quota: the value it read, plus the days
UsedAfterApprovalOfStored(read, stored, duration) == stored + duration
UsedAfterApproval(read, stored, duration) == read + duration

\* const oldRequest = await findUnique({ where: { id } });
\* if (!oldRequest) throw new Error('Leave request not found')
LeaveUpdateRead(s, statuses) ==
    /\ lproc[s].pc = "idle"
    /\ \E i \in DOMAIN LeaveIds, st \in statuses :
          LET id == LeaveIds[i]
          IN  IF leaves[id].exists
              THEN LeaveStep(s, [pc |-> "u_update", op |-> "update", id |-> id,
                                 status |-> st, old |-> leaves[id]])
              ELSE LeaveRespond(s, 500, [op |-> "update", id |-> id, status |-> st])
    /\ UNCHANGED <<leaves, quota, credited, nikVars, bulk, payrollVars, calcVars>>

\* await prisma.leave_requests.update({ where: { id }, data: filteredUpdateData });
\* if (updateData.status === 'APPROVED' && oldRequest.status !== 'APPROVED'
\*     && oldRequest.reason !== 'Sakit') { ... quota ... }
LeaveUpdateRow(s) ==
    /\ lproc[s].pc = "u_update"
    /\ LET id  == lproc[s].id
           old == lproc[s].old
       IN  IF ~leaves[id].exists
           THEN /\ LeaveRespond(s, 500, <<>>)
                /\ UNCHANGED leaves
           ELSE /\ leaves' = [leaves EXCEPT ![id].status = lproc[s].status]
                /\ IF /\ lproc[s].status = "APPROVED"
                      /\ old.status # "APPROVED"
                      /\ old.reason # SickReason
                   THEN LeaveStep(s, [pc |-> "u_quota"])
                   ELSE LeaveRespond(s, 200, <<>>)
    /\ UNCHANGED <<quota, credited, nikVars, bulk, payrollVars, calcVars>>

\* const leaveQuota = await findFirst({ employee_id, year, quota_type: 'tahunan' })
LeaveUpdateQuota(s) ==
    /\ lproc[s].pc = "u_quota"
    /\ LET e == lproc[s].old.employee_id
       IN  IF quota[e].exists
           THEN LeaveStep(s, [pc |-> "u_credit", read |-> quota[e],
                              overlap |-> ReadsQuotaBesideAnother(s, e)])
           ELSE LeaveRespond(s, 200, <<>>)
    /\ UNCHANGED <<leaves, quota, credited, nikVars, bulk, payrollVars, calcVars>>

\* const newUsed = (leaveQuota.used_quota || 0) + duration;
\* await prisma.leave_quotas.update({ where: { id }, data: { used_quota: newUsed } })
LeaveUpdateCredit(s) ==
    /\ lproc[s].pc = "u_credit"
    /\ LET old == lproc[s].old
           e   == old.employee_id
           duration == InclusiveDays(old.start_date, old.end_date)
           newUsed  == UsedAfterApproval(lproc[s].read.used_quota,
                                         quota[e].used_quota, duration)
       IN  /\ newUsed <= MaxUsed
           /\ quota' = [quota EXCEPT ![e].used_quota = newUsed]
           /\ credited' = [credited EXCEPT ![lproc[s].id] = @ + 1]
           /\ LeaveRespond(s, 200, <<>>)
    /\ UNCHANGED <<leaves, nikVars, bulk, payrollVars, calcVars>>

\* the answer has been sent; the slot takes the next request
LeaveFinish(s) ==
    /\ lproc[s].pc = "done"
    /\ lproc' = [lproc EXCEPT ![s] = IdleLeaveProc]
    /\ UNCHANGED <<leaves, quota, credited, nikVars, bulk, payrollVars, calcVars>>

-----------------------------------------------------------------------------
(* POST /api/payrolls/calculate *)

MaxComponents == 2    \* payroll_components rows in the table

CalcProcs == {"k1", "k2"}
UnknownEmployee == "e9"

\* JavaScript values: numbers, undefined, null, NaN and a string that is not a number
Num(n)  == [t |-> "number", n |-> n]
Absent  == [t |-> "undefined", n |-> 0]
JsNull  == [t |-> "null", n |-> 0]
NaN     == [t |-> "NaN", n |-> 0]
Text    == [t |-> "string", n |-> 0]

IsNumber(v) == v.t = "number"

\* !v
Falsy(v) == v \in {Absent, JsNull, NaN, Num(0)}

\* Number(v): null is 0, undefined and a string that is not a number are NaN
ToNumber(v) == IF IsNumber(v) THEN v ELSE IF v = JsNull THEN Num(0) ELSE NaN

\* Number(v) || 0
NumberOrZero(v) == IF Falsy(ToNumber(v)) THEN Num(0) ELSE ToNumber(v)

\* Number(v || 0)
NumberOfOrZero(v) == IF Falsy(v) THEN Num(0) ELSE ToNumber(v)

\* a + b: with a string operand the result is a string (still not a number),
\* otherwise the sum of the operands as numbers
Plus(a, b) ==
    IF a = Text \/ b = Text THEN Text
    ELSE IF IsNumber(ToNumber(a)) /\ IsNumber(ToNumber(b))
    THEN Num(ToNumber(a).n + ToNumber(b).n)
    ELSE NaN

\* a - b
Minus(a, b) ==
    IF IsNumber(ToNumber(a)) /\ IsNumber(ToNumber(b))
    THEN Num(ToNumber(a).n - ToNumber(b).n)
    ELSE NaN

\* res.json: JSON.stringify writes NaN as null
ToJson(v) == IF v = NaN THEN JsNull ELSE v

\* names of components the payroll creation looks up
HealthCompany  == "BPJS Kesehatan (Perusahaan)"
JhtCompany     == "BPJS Ketenagakerjaan JHT (Perusahaan)"
HealthEmployee == "BPJS Kesehatan (Karyawan)"
JhtEmployee    == "BPJS Ketenagakerjaan JHT (Karyawan)"

\* payroll_components rows: type is 'income' or 'deduction', percentage and
\* amount are nullable decimals
ComponentRows ==
    {[name |-> HealthCompany, type |-> "income", percentage |-> Num(5),
      amount |-> Num(0), is_active |-> TRUE],
     [name |-> JhtCompany, type |-> "income", percentage |-> Num(5),
      amount |-> Num(30), is_active |-> TRUE],
     [name |-> HealthEmployee, type |-> "deduction", percentage |-> JsNull,
      amount |-> Num(50), is_active |-> TRUE],
     [name |-> JhtEmployee, type |-> "deduction", percentage |-> Num(2),
      amount |-> Num(0), is_active |-> TRUE],
     [name |-> HealthCompany, type |-> "income", percentage |-> Num(5),
      amount |-> Num(30), is_active |-> FALSE],
     [name |-> "Gaji Pokok", type |-> "income", percentage |-> JsNull,
      amount |-> JsNull, is_active |-> TRUE]}

ComponentLists == UNION {[1..n -> ComponentRows] : n \in 0..MaxComponents}

\* salary rows: the allowances are nullable
NoSalary == [exists |-> FALSE, basic_salary |-> JsNull,
             position_allowance |-> JsNull, management_allowance |-> JsNull,
             phone_allowance |-> JsNull, incentive_allowance |-> JsNull,
             overtime_allowance |-> JsNull]

SalaryRows ==
    {NoSalary,
     [exists |-> TRUE, basic_salary |-> Num(1000),
      position_allowance |-> JsNull, management_allowance |-> JsNull,
      phone_allowance |-> JsNull, incentive_allowance |-> JsNull,
      overtime_allowance |-> JsNull],
     [exists |-> TRUE, basic_salary |-> Num(1000),
      position_allowance |-> Num(1), management_allowance |-> Num(2),
      phone_allowance |-> Num(4), incentive_allowance |-> Num(8),
      overtime_allowance |-> Num(16)],
     [exists |-> TRUE, basic_salary |-> Num(1000),
      position_allowance |-> JsNull, management_allowance |-> Num(2),
      phone_allowance |-> Num(0), incentive_allowance |-> JsNull,
      overtime_allowance |-> Num(16)]}

\* req.body.manual_deductions: left out, or an object with some of its fields
NoManual == [given |-> FALSE, kasbon |-> Absent, telat |-> Absent,
             angsuran_kredit |-> Absent]
ManualDeductions ==
    {NoManual,
     [given |-> TRUE, kasbon |-> Num(0),  telat |-> Num(0),  angsuran_kredit |-> Num(0)],
     [given |-> TRUE, kasbon |-> Num(20), telat |-> Num(10), angsuran_kredit |-> Num(5)],
     [given |-> TRUE, kasbon |-> Num(20), telat |-> Absent,  angsuran_kredit |-> Absent],
     [given |-> TRUE, kasbon |-> Text,    telat |-> Num(0),  angsuran_kredit |-> Num(0)]}

NoRequest == [employee_id |-> None, basic_salary |-> Absent, manual_deductions |-> NoManual]

CalcRequests ==
    [employee_id : StaffIds \cup {UnknownEmployee, None},
     basic_salary : {Absent, Num(1500), Text},
     manual_deductions : ManualDeductions]

NoTotals == [basic_salary |-> Absent, total_income |-> Absent,
             total_auto_deduction |-> Absent, total_manual_deduction |-> Absent,
             total_deduction |-> Absent, net_salary |-> Absent,
             pendapatan_tetap |-> Absent, pendapatan_tidak_tetap |-> Absent,
             total_pendapatan |-> Absent, pure_basic_salary |-> Absent,
             calculated |-> <<>>]

IdleCalcProc == [pc |-> "idle", req |-> NoRequest, comps |-> <<>>, sal |-> NoSalary,
                 code |-> 0, totals |-> NoTotals]

CalcStep(p, changes) ==
    cproc' = [cproc EXCEPT ![p] = [f \in DOMAIN IdleCalcProc |->
                 IF f \in DOMAIN changes THEN changes[f] ELSE cproc[p][f]]]

CalcRespond(p, code, totals) ==
    CalcStep(p, [pc |-> "done", code |-> code, totals |-> totals])

\* prisma.payroll_components.findMany({ where: { is_active: true } })
ActiveComponents == SelectSeq(components, LAMBDA c : c.is_active)

\* const basicSalaryNumber = Number(basic_salary) || 0, the basic_salary of the totals
BasicSalaryNumberAtClock(basic_salary) == Num(clock)
BasicSalaryNumber(basic_salary) == NumberOrZero(basic_salary)

\* amount of one component: the percentage of the pure basic salary when the
\* percentage is positive, else the flat amount when that is positive, else 0
ContributionAmountFirst(component, pureBasicSalary) ==
    LET percentage      == NumberOrZero(component.percentage)
        componentAmount == NumberOrZero(component.amount)
    IN  IF componentAmount.n > 0 THEN componentAmount
        ELSE IF percentage.n > 0
        THEN Num((pureBasicSalary.n * percentage.n) \div 100)
        ELSE Num(0)
Contribution(component, pureBasicSalary) ==
    LET percentage      == NumberOrZero(component.percentage)
        componentAmount == NumberOrZero(component.amount)
    IN  IF percentage.n > 0
        THEN Num((pureBasicSalary.n * percentage.n) \div 100)
        ELSE IF componentAmount.n > 0 THEN componentAmount
        ELSE Num(0)

\* activeComponents.forEach: the amounts of the components of one type, added up
RECURSIVE TotalOfType(_, _, _)
TotalOfType(active, type, pureBasicSalary) ==
    IF active = <<>> THEN Num(0)
    ELSE LET rest == TotalOfType(SubSeq(active, 1, Len(active) - 1), type, pureBasicSalary)
             last == active[Len(active)]
         IN  IF last.type = type
             THEN Plus(rest, Contribution(last, pureBasicSalary))
             ELSE rest

\* manual_deductions || { kasbon: 0, telat: 0, angsuran_kredit: 0 }
ManualOrZeros(manual_deductions) ==
    IF manual_deductions.given THEN manual_deductions
    ELSE [given |-> FALSE, kasbon |-> Num(0), telat |-> Num(0),
          angsuran_kredit |-> Num(0)]

\* manualDeductions.kasbon + manualDeductions.telat + manualDeductions.angsuran_kredit
TotalManualDeduction(manual_deductions) ==
    LET manualDeductions == ManualOrZeros(manual_deductions)
    IN  Plus(Plus(manualDeductions.kasbon, manualDeductions.telat),
             manualDeductions.angsuran_kredit)

\* the five allowances of the salary row, each as Number(x || 0)
TotalTunjanganWithoutOvertime(salaryData) ==
    Plus(Plus(Plus(NumberOfOrZero(salaryData.position_allowance),
                   NumberOfOrZero(salaryData.management_allowance)),
              NumberOfOrZero(salaryData.phone_allowance)),
         NumberOfOrZero(salaryData.incentive_allowance))
TotalTunjangan(salaryData) ==
    Plus(Plus(Plus(Plus(NumberOfOrZero(salaryData.position_allowance),
                        NumberOfOrZero(salaryData.management_allowance)),
                   NumberOfOrZero(salaryData.phone_allowance)),
              NumberOfOrZero(salaryData.incentive_allowance)),
         NumberOfOrZero(salaryData.overtime_allowance))

\* the same response with the amounts taken of the basic_salary of the body
\* (frontendBasicSalary) in place of the one of the salary row
TotalsOfFrontendSalary(req, active, salaryData) ==
    LET pureBasicSalary      == NumberOrZero(req.basic_salary)
        totalIncome          == TotalOfType(active, "income", pureBasicSalary)
        totalAutoDeduction   == TotalOfType(active, "deduction", pureBasicSalary)
        totalManualDeduction == TotalManualDeduction(req.manual_deductions)
        pendapatanTetap      == Plus(pureBasicSalary, totalIncome)
        pendapatanTidakTetap == TotalTunjangan(salaryData)
        totalPendapatan      == Plus(pendapatanTetap, pendapatanTidakTetap)
        totalDeduction       == Plus(totalAutoDeduction, totalManualDeduction)
        netSalary            == Minus(totalPendapatan, totalDeduction)
    IN  [basic_salary           |-> ToJson(BasicSalaryNumber(req.basic_salary)),
         total_income           |-> ToJson(totalIncome),
         total_auto_deduction   |-> ToJson(totalAutoDeduction),
         total_manual_deduction |-> ToJson(totalManualDeduction),
         total_deduction        |-> ToJson(totalDeduction),
         net_salary             |-> ToJson(netSalary),
         pendapatan_tetap       |-> ToJson(pendapatanTetap),
         pendapatan_tidak_tetap |-> ToJson(pendapatanTidakTetap),
         total_pendapatan       |-> ToJson(totalPendapatan),
         pure_basic_salary      |-> ToJson(pureBasicSalary),
         calculated             |-> [i \in 1..Len(active) |->
                                       ToJson(Contribution(active[i], pureBasicSalary))]]

\* response.totals, pure_basic_salary and the amounts of calculated_components,
\* as res.json writes them
Totals(req, active, salaryData) ==
    LET pureBasicSalary      == NumberOrZero(salaryData.basic_salary)
        totalIncome          == TotalOfType(active, "income", pureBasicSalary)
        totalAutoDeduction   == TotalOfType(active, "deduction", pureBasicSalary)
        totalManualDeduction == TotalManualDeduction(req.manual_deductions)
        pendapatanTetap      == Plus(pureBasicSalary, totalIncome)
        pendapatanTidakTetap == TotalTunjangan(salaryData)
        totalPendapatan      == Plus(pendapatanTetap, pendapatanTidakTetap)
        totalDeduction       == Plus(totalAutoDeduction, totalManualDeduction)
        netSalary            == Minus(totalPendapatan, totalDeduction)
    IN  [basic_salary           |-> ToJson(BasicSalaryNumber(req.basic_salary)),
         total_income           |-> ToJson(totalIncome),
         total_auto_deduction   |-> ToJson(totalAutoDeduction),
         total_manual_deduction |-> ToJson(totalManualDeduction),
         total_deduction        |-> ToJson(totalDeduction),
         net_salary             |-> ToJson(netSalary),
         pendapatan_tetap       |-> ToJson(pendapatanTetap),
         pendapatan_tidak_tetap |-> ToJson(pendapatanTidakTetap),
         total_pendapatan       |-> ToJson(totalPendapatan),
         pure_basic_salary      |-> ToJson(pureBasicSalary),
         calculated             |-> [i \in 1..Len(active) |->
                                       ToJson(Contribution(active[i], pureBasicSalary))]]

\* if (!employee_id || !basic_salary) return 400
CalcStart(p, reqs) ==
    /\ cproc[p].pc = "idle"
    /\ \E req \in reqs :
          IF req.employee_id = None \/ Falsy(req.basic_salary)
          THEN CalcStep(p, [pc |-> "done", req |-> req, code |-> 400])
          ELSE CalcStep(p, [pc |-> "c_components", req |-> req])
    /\ UNCHANGED <<components, salary, nikVars, bulk, leaveVars, payrollVars>>

\* const activeComponents = await prisma.payroll_components.findMany(...);
\* a rejected query is answered 500 by the catch
CalcComponents(p) ==
    /\ cproc[p].pc = "c_components"
    /\ \/ CalcStep(p, [pc |-> "c_employee", comps |-> ActiveComponents])
       \/ CalcRespond(p, 500, NoTotals)
    /\ UNCHANGED <<components, salary, nikVars, bulk, leaveVars, payrollVars>>

\* const employeeData = await prisma.employees.findUnique({ where: { id } }); 404 without
CalcEmployee(p) ==
    /\ cproc[p].pc = "c_employee"
    /\ \/ IF cproc[p].req.employee_id \in StaffIds
          THEN CalcStep(p, [pc |-> "c_salary"])
          ELSE CalcRespond(p, 404, NoTotals)
       \/ CalcRespond(p, 500, NoTotals)
    /\ UNCHANGED <<components, salary, nikVars, bulk, leaveVars, payrollVars>>

\* const salaryData = await prisma.salary.findUnique({ where: { employee_id } });
\* 404 without, otherwise the totals are computed and answered
CalcSalary(p) ==
    /\ cproc[p].pc = "c_salary"
    /\ LET salaryData == salary[cproc[p].req.employee_id]
       IN  \/ IF salaryData.exists
              THEN CalcStep(p, [pc |-> "done", code |-> 200, sal |-> salaryData,
                                totals |-> Totals(cproc[p].req, cproc[p].comps, salaryData)])
              ELSE CalcRespond(p, 404, NoTotals)
           \/ CalcRespond(p, 500, NoTotals)
    /\ UNCHANGED <<components, salary, nikVars, bulk, leaveVars, payrollVars>>

\* the response has been sent; the slot is free for the next request
CalcFinish(p) ==
    /\ cproc[p].pc = "done"
    /\ cproc' = [cproc EXCEPT ![p] = IdleCalcProc]
    /\ UNCHANGED <<components, salary, nikVars, bulk, leaveVars, payrollVars>>

\* time passes on the server clock between calculations
CalcTick ==
    /\ clock < MaxClock
    /\ clock' = clock + 1
    /\ UNCHANGED <<cfg, employees, proc, otherThanNik>>

-----------------------------------------------------------------------------
(* Payrolls                                                                  *)
(* payment_date is a DATE column: a day number.  An instant is a number of   *)
(* hours since day 0, 00:00 UTC; the server's local time is tz hours ahead.  *)
(* The calendar is cut down to months of DaysPerMonth days.                  *)

DaysPerMonth == 3    \* days in a calendar month of the model
MaxMonths    == 2    \* calendar months the payment dates range over
HoursPerDay  == 24

ServerOffsets == {0, 7}            \* UTC, and Asia/Jakarta (UTC+7)
PayProcs   == {"w1", "w2"}         \* two payroll requests in flight at once
PayrollIds == <<"p1", "p2">>       \* the ids the store hands to new payrolls rows
PayDays    == 0..(DaysPerMonth * MaxMonths - 1)
NoDate     == -1                   \* payment_date absent from the request

\* the BPJS sub-amounts of a payroll body or row: two of the company's, two of
\* the employee's, and the two subtotals
NoSubs == [bpjs_health_company |-> Absent, jht_company |-> Absent,
           subtotal_company |-> Absent, bpjs_health_employee |-> Absent,
           jht_employee |-> Absent, subtotal_employee |-> Absent]

NoPayroll == [exists |-> FALSE, employee_id |-> None, payment_date |-> NoDate,
              gross_salary |-> 0, net_salary |-> 0, status |-> None,
              basic_salary |-> Absent, subs |-> NoSubs]

IdlePayProc == [pc |-> "idle", req |-> NoPayroll, code |-> 0, comps |-> <<>>,
                id |-> None]

PayStep(s, changes) ==
    pproc' = [pproc EXCEPT ![s] = [f \in DOMAIN IdlePayProc |->
                 IF f \in DOMAIN changes THEN changes[f] ELSE pproc[s][f]]]

\* the answer is sent: the handler's local variables are gone
PayRespond(s, code, changes) ==
    pproc' = [pproc EXCEPT ![s] = [IdlePayProc EXCEPT !.pc = "done", !.code = code]]

\* new Date("YYYY-MM-DD"): midnight UTC of that day
ParseDate(day) == day * HoursPerDay

\* the day an instant falls on, on the server's local clock and in UTC
LocalDay(instant) == (instant + tz) \div HoursPerDay
UtcDay(instant)   == instant \div HoursPerDay

\* payDate.getFullYear(), payDate.getMonth(): the local calendar month
GetMonth(instant) == LocalDay(instant) \div DaysPerMonth

\* new Date(year, month, day): local midnight of a day of the month, days counted
\* from 1, day 0 being the last day of the month before
LocalMidnight(month, day) ==
    (month * DaysPerMonth + (day - 1)) * HoursPerDay - tz

MonthStart(payDate) == LocalMidnight(GetMonth(payDate), 1)
MonthEnd(payDate)   == LocalMidnight(GetMonth(payDate) + 1, 0)

\* the calendar month of a stored payment_date
CalendarMonth(day) == day \div DaysPerMonth

\* findFirst({ employee_id, payment_date: { gte: monthStart, lte: monthEnd } }):
\* the bounds are compared with the DATE column as days
ExistingSameMonth(e, payDate) ==
    \E i \in DOMAIN PayrollIds :
        LET r == payrolls[PayrollIds[i]]
        IN  /\ r.exists /\ r.employee_id = e /\ r.payment_date # NoDate
            /\ r.payment_date >= UtcDay(MonthStart(payDate))
            /\ r.payment_date <= UtcDay(MonthEnd(payDate))

\* history: the employee has a payroll whose payment_date lies in the calendar
\* month of the given day
HasPayrollInMonthOf(e, day) ==
    \E i \in DOMAIN PayrollIds :
        LET r == payrolls[PayrollIds[i]]
        IN  /\ r.exists /\ r.employee_id = e /\ r.payment_date # NoDate
            /\ CalendarMonth(r.payment_date) = CalendarMonth(day)

FreePayrollId ==
    IF \E i \in DOMAIN PayrollIds : ~payrolls[PayrollIds[i]].exists
    THEN PayrollIds[CHOOSE i \in DOMAIN PayrollIds :
                       /\ ~payrolls[PayrollIds[i]].exists
                       /\ \A j \in 1..(i - 1) : payrolls[PayrollIds[j]].exists]
    ELSE None

(* POST /api/payrolls *)

\* parseFloat(v || 0)
ParseFloatOrZero(v) == IF Falsy(v) THEN Num(0) ELSE IF IsNumber(v) THEN v ELSE NaN

\* a || b
OrElse(a, b) == IF Falsy(a) THEN b ELSE a

\* getComponentAmount(componentName, expectedType): the first active component
\* of that name and type, as a percentage of the body's basic_salary when the
\* percentage is positive, else its positive flat amount, else 0
GetComponentAmount(active, componentName, expectedType, basicSalaryNumber) ==
    LET found == SelectSeq(active, LAMBDA c : c.name = componentName /\ c.type = expectedType)
    IN  IF found = <<>> THEN Num(0)
        ELSE LET percentage == NumberOrZero(found[1].percentage)
                 amount     == NumberOrZero(found[1].amount)
             IN  IF percentage.n > 0
                 THEN Num((basicSalaryNumber.n * percentage.n) \div 100)
                 ELSE IF amount.n > 0 THEN amount
                 ELSE Num(0)

\* the sub-amounts of data: the body's value, or the fallback when that is 0,
\* absent or not a number; the subtotals are built from the resolved values
ResolvedSubs(req, active) ==
    LET basicSalaryNumber == NumberOrZero(req.basic_salary)
        fb(name, type) == GetComponentAmount(active, name, type, basicSalaryNumber)
        healthCompany  == OrElse(ParseFloatOrZero(req.subs.bpjs_health_company),
                                 fb(HealthCompany, "income"))
        jhtCompany     == OrElse(ParseFloatOrZero(req.subs.jht_company),
                                 fb(JhtCompany, "income"))
        healthEmployee == OrElse(ParseFloatOrZero(req.subs.bpjs_health_employee),
                                 fb(HealthEmployee, "deduction"))
        jhtEmployee    == OrElse(ParseFloatOrZero(req.subs.jht_employee),
                                 fb(JhtEmployee, "deduction"))
    IN  [bpjs_health_company  |-> healthCompany,
         jht_company          |-> jhtCompany,
         subtotal_company     |-> OrElse(ParseFloatOrZero(req.subs.subtotal_company),
                                         Plus(healthCompany, jhtCompany)),
         bpjs_health_employee |-> healthEmployee,
         jht_employee         |-> jhtEmployee,
         subtotal_employee    |-> OrElse(ParseFloatOrZero(req.subs.subtotal_employee),
                                         Plus(healthEmployee, jhtEmployee))]

\* data of prisma.payrolls.create
PayrollData(req, active) ==
    [req EXCEPT !.basic_salary = ParseFloatOrZero(req.basic_salary),
                !.subs = ResolvedSubs(req, active)]

\* if (!employee_id || ... || !gross_salary || !net_salary) return 400
\* const employee = await findUnique(...); if (!employee) return 400
\* a body without status is stored with the column's default, 'PENDING'
PayCreateStartOf(s, emps, dates, amounts, statuses, basics, subs) ==
    /\ pproc[s].pc = "idle"
    /\ \E e \in emps, day \in dates, gross \in amounts, net \in amounts,
          status \in statuses, basic \in basics, sub \in subs :
          LET r == [exists |-> TRUE, employee_id |-> e, payment_date |-> day,
                    gross_salary |-> gross, net_salary |-> net,
                    status |-> IF status = None THEN "PENDING" ELSE status,
                    basic_salary |-> basic, subs |-> sub]
          IN  IF e = None \/ gross = 0 \/ net = 0
              THEN PayRespond(s, 400, [req |-> r])
              ELSE IF e \notin StaffIds
              THEN PayRespond(s, 400, [req |-> r])
              ELSE PayStep(s, [pc |-> "p_guard", req |-> r])
    /\ UNCHANGED <<tz, payrolls, nikVars, bulk, leaveVars, calcVars>>

PayCreateStart(s, emps, dates, amounts) ==
    PayCreateStartOf(s, emps, dates, amounts, {None}, {Absent}, {NoSubs})

\* the monthly guard: an invalid date makes the query throw (500); a payroll
\* found between monthStart and monthEnd answers 409
PayCreateGuard(s) ==
    /\ pproc[s].pc = "p_guard"
    /\ LET r == pproc[s].req
       IN  IF r.payment_date = NoDate
           THEN PayRespond(s, 500, <<>>)
           ELSE IF ExistingSameMonth(r.employee_id, ParseDate(r.payment_date))
           THEN PayRespond(s, 409, <<>>)
           ELSE PayStep(s, [pc |-> "p_components"])
    /\ UNCHANGED <<tz, payrolls, nikVars, bulk, leaveVars, calcVars>>

\* const activeComponents = await prisma.payroll_components.findMany({ where: { is_active: true } })
PayCreateComponents(s) ==
    /\ pproc[s].pc = "p_components"
    /\ PayStep(s, [pc |-> "p_create", comps |-> ActiveComponents])
    /\ UNCHANGED <<tz, payrolls, nikVars, bulk, leaveVars, calcVars>>

\* const payroll = await prisma.payrolls.create({ data })
PayCreateRow(s) ==
    /\ pproc[s].pc = "p_create"
    /\ FreePayrollId # None
    /\ payrolls' = [payrolls EXCEPT ![FreePayrollId] =
                       PayrollData(pproc[s].req, pproc[s].comps)]
    /\ PayRespond(s, 201, <<>>)
    /\ UNCHANGED <<tz, nikVars, bulk, leaveVars, calcVars>>

PayFinish(s) ==
    /\ pproc[s].pc = "done"
    /\ pproc' = [pproc EXCEPT ![s] = IdlePayProc]
    /\ UNCHANGED <<tz, payrolls, nikVars, bulk, leaveVars, calcVars>>

\* the server process starts on a host whose local time is offset hours ahead
\* of UTC; requests in flight do not survive a restart
PayServerStart(offset) ==
    /\ \A s \in PayProcs : pproc[s].pc = "idle"
    /\ tz' = offset
    /\ UNCHANGED <<payrolls, pproc, nikVars, bulk, leaveVars, calcVars>>

(* PUT /api/payrolls/:id *)

\* await prisma.payrolls.update({ where: { id }, data: parseResult.data }):
\* the fields of the body are written as they come
PayUpdate(id, dates) ==
    /\ payrolls[id].exists
    /\ \E day \in dates : payrolls' = [payrolls EXCEPT ![id].payment_date = day]
    /\ UNCHANGED <<tz, pproc, nikVars, bulk, leaveVars, calcVars>>

\* PUT /api/payrolls/:id with a status in the body: payrollSchema.partial()
\* asks for a string of at least one character
PayUpdateStatus(id, statuses) ==
    /\ payrolls[id].exists
    /\ \E status \in statuses \ {None} :
          payrolls' = [payrolls EXCEPT ![id].status = status]
    /\ UNCHANGED <<tz, pproc, nikVars, bulk, leaveVars, calcVars>>

(* PATCH /api/payrolls/:id/status *)

PayrollStatuses == {"PENDING", "APPROVED", "PAID", "REJECTED", "UNPAID"}
UnknownPayroll  == "p9"

\* if (!status || ![...].includes(status)) return 400
PayPatchStart(s, ids, statuses) ==
    /\ pproc[s].pc = "idle"
    /\ \E id \in ids, status \in statuses :
          IF status = None \/ status \notin PayrollStatuses
          THEN PayRespond(s, 400, <<>>)
          ELSE PayStep(s, [pc |-> "p_find", id |-> id,
                           req |-> [NoPayroll EXCEPT !.status = status]])
    /\ UNCHANGED <<tz, payrolls, nikVars, bulk, leaveVars, calcVars>>

\* const existingPayroll = await prisma.payrolls.findUnique({ where: { id } }); 404 without
PayPatchFind(s) ==
    /\ pproc[s].pc = "p_find"
    /\ IF pproc[s].id \in Range(PayrollIds) /\ payrolls[pproc[s].id].exists
       THEN PayStep(s, [pc |-> "p_update"])
       ELSE PayRespond(s, 404, <<>>)
    /\ UNCHANGED <<tz, payrolls, nikVars, bulk, leaveVars, calcVars>>

\* await prisma.payrolls.update({ where: { id }, data: { status } }); a row
\* deleted meanwhile makes the update throw (500)
PayPatchUpdate(s) ==
    /\ pproc[s].pc = "p_update"
    /\ IF payrolls[pproc[s].id].exists
       THEN /\ payrolls' = [payrolls EXCEPT ![pproc[s].id].status = pproc[s].req.status]
            /\ PayRespond(s, 200, <<>>)
       ELSE /\ PayRespond(s, 500, <<>>)
            /\ UNCHANGED payrolls
    /\ UNCHANGED <<tz, nikVars, bulk, leaveVars, calcVars>>

(* DELETE /api/payrolls/:id *)

PayDelete(id) ==
    /\ payrolls[id].exists
    /\ payrolls' = [payrolls EXCEPT ![id] = NoPayroll]
    /\ UNCHANGED <<tz, pproc, nikVars, bulk, leaveVars, calcVars>>

-----------------------------------------------------------------------------
(* Initial state: one configured department, no employees, nothing in flight *)

InitCfg == [d \in Depts |->
              IF d = "Operational"
              THEN [exists |-> TRUE, is_active |-> TRUE, prefix |-> PrefixOf(d),
                    current_sequence |-> 1, sequence_length |-> DefaultSequenceLength,
                    format_pattern |-> SentinelPattern]
              ELSE NoCfg]

Init ==
    /\ cfg = InitCfg
    /\ employees = <<>>
    /\ clock = 0
    /\ proc = [p \in Procs |-> IdleProc]
    /\ bulk = IdleBulk
    /\ leaves = [i \in Range(LeaveIds) |-> NoLeave]
    /\ quota = [e \in StaffIds |->
                  [exists |-> TRUE, total_quota |-> TotalQuota, used_quota |-> 0]]
    /\ lproc = [s \in LeaveProcs |-> IdleLeaveProc]
    /\ credited = [i \in Range(LeaveIds) |-> 0]
    /\ tz = 0
    /\ payrolls = [i \in Range(PayrollIds) |-> NoPayroll]
    /\ pproc = [s \in PayProcs |-> IdlePayProc]
    /\ components = <<>>
    /\ salary = [e \in StaffIds |-> NoSalary]
    /\ cproc = [p \in CalcProcs |-> IdleCalcProc]

\* the calculator's inputs: any table of components and any salary row
InitCalc ==
    /\ cfg = InitCfg
    /\ employees = <<>>
    /\ clock = 0
    /\ proc = [p \in Procs |-> IdleProc]
    /\ bulk = IdleBulk
    /\ leaves = [i \in Range(LeaveIds) |-> NoLeave]
    /\ quota = [e \in StaffIds |->
                  [exists |-> TRUE, total_quota |-> TotalQuota, used_quota |-> 0]]
    /\ lproc = [s \in LeaveProcs |-> IdleLeaveProc]
    /\ credited = [i \in Range(LeaveIds) |-> 0]
    /\ tz = 0
    /\ payrolls = [i \in Range(PayrollIds) |-> NoPayroll]
    /\ pproc = [s \in PayProcs |-> IdlePayProc]
    /\ components \in ComponentLists
    /\ salary \in [StaffIds -> SalaryRows]
    /\ cproc = [p \in CalcProcs |-> IdleCalcProc]

-----------------------------------------------------------------------------
(* Spec: NIK requests racing on the configurations.  Two generate-next      *)
(* requests interleave at every await; an administrator edits the rows.     *)

Next ==
    \/ \E p \in Procs : GenStart(p)
    \/ \E p \in Procs : GenLookup(p)
    \/ \E p \in Procs : GenFallback(p)
    \/ \E p \in Procs : GenUpdate(p)
    \/ \E p \in Procs : Finish(p)
    \/ \E d \in Depts : AdminCreateConfig(d, {0}, {Null})
    \/ \E d \in Depts : AdminUpdateConfig(d, {1}, {SentinelPattern})
    \/ \E d \in Depts : AdminDeleteConfig(d)

Spec == Init /\ [][Next]_vars

(* SpecSeq: every NIK-issuing handler of a single request, one request at   *)
(* a time; the administrator acts between requests.                         *)

Solo == "r1"

Quiet == \A p \in Procs : proc[p].pc = "idle"

NextSeq ==
    \/ GenStart(Solo)
    \/ GenLookup(Solo)
    \/ GenFallback(Solo)
    \/ GenUpdate(Solo)
    \/ EmpStart(Solo)
    \/ EmpLookup(Solo)
    \/ EmpUpdate(Solo)
    \/ EmpCreate(Solo)
    \/ FixStart(Solo)
    \/ FixAssign(Solo)
    \/ FixFind(Solo)
    \/ FixConfig(Solo)
    \/ FixLoop(Solo)
    \/ FixUpdate(Solo)
    \/ Finish(Solo)
    \/ \E d \in Depts : Quiet /\ AdminCreateConfig(d, {0}, {Null})
    \/ \E d \in Depts : Quiet /\ AdminUpdateConfig(d, {1}, {SentinelPattern})
    \/ \E d \in Depts : Quiet /\ AdminDeleteConfig(d)

SpecSeq == Init /\ [][NextSeq]_vars

(* SpecPaths: the same handlers, one request at a time, over configurations  *)
(* whose format_pattern the administrator sets to a template as well.        *)

NextPaths ==
    \/ GenStart(Solo)
    \/ GenLookup(Solo)
    \/ GenFallback(Solo)
    \/ GenUpdate(Solo)
    \/ EmpStart(Solo)
    \/ EmpLookup(Solo)
    \/ EmpUpdate(Solo)
    \/ EmpCreate(Solo)
    \/ FixStart(Solo)
    \/ FixAssign(Solo)
    \/ FixFind(Solo)
    \/ FixConfig(Solo)
    \/ FixLoop(Solo)
    \/ FixUpdate(Solo)
    \/ Finish(Solo)
    \/ \E d \in Depts : Quiet /\ AdminUpdateConfig(d, {1}, Patterns)

SpecPaths == Init /\ [][NextPaths]_vars

(* SpecFormat: the administrator stores prefixes, lengths and patterns of    *)
(* every shape the PUT handler accepts; generate-next formats NIKs from     *)
(* them.                                                                     *)

UnrecognizedPattern == <<"N", "I", "K">> \o PrefixPlaceholder
RepeatedPattern     == DashPattern \o <<"/">> \o PrefixPlaceholder
FormatPatterns      == Patterns \cup {UnrecognizedPattern, RepeatedPattern}
BracedPrefix        == <<"Q">> \o SequencePlaceholder
FormatPrefixes      == {PrefixOf("Operational"), BracedPrefix}
FormatLengths       == {1, DefaultSequenceLength}

NextFormat ==
    \/ GenStart(Solo)
    \/ GenLookup(Solo)
    \/ GenFallback(Solo)
    \/ GenUpdate(Solo)
    \/ Finish(Solo)
    \/ AdminUpdateConfig("Operational", {1}, FormatPatterns)
    \/ AdminUpdateFormat("Operational", FormatPrefixes, FormatLengths)

SpecFormat == Init /\ [][NextFormat]_vars

(* SpecValidate: validate-format requests against the configurations the     *)
(* administrator stores.                                                     *)

NikInputs == {Null, Ops \o <<"0", "0", "3">>, Ops19 \o <<"0", "0", "3">>,
              Ops \o <<"3">>, <<"A", "B", "C", "0", "0", "3">>,
              <<"G", "E", "N", "0", "0", "3">>,
              <<"N", "I", "K">> \o Ops19}
ValidatePatterns == Patterns \cup {UnrecognizedPattern}
ValidatePrefixes == {Ops, Ops19}

NextValidate ==
    \/ ValStart(Solo, DeptNames, NikInputs)
    \/ ValDept(Solo)
    \/ ValConfig(Solo)
    \/ Finish(Solo)
    \/ AdminCreateConfig("General", {0}, {Null})
    \/ \E d \in Depts : AdminUpdateConfig(d, {1}, ValidatePatterns)
    \/ \E d \in Depts : AdminUpdateFormat(d, ValidatePrefixes, {DefaultSequenceLength})

SpecValidate == Init /\ [][NextValidate]_vars

(* SpecRoundTrip: every NIK that generate-next returns is handed to          *)
(* validate-format with the department it was asked for; the administrator   *)
(* acts between the round trips.                                             *)

Checker == "r2"

NextRoundTrip ==
    \/ GenStart(Solo)
    \/ GenLookup(Solo)
    \/ GenFallback(Solo)
    \/ GenUpdate(Solo)
    \/ Finish(Solo)
    \/ /\ proc[Solo].pc = "done" /\ proc[Solo].status = 200
       /\ ValStart(Checker, {proc[Solo].dept}, {proc[Solo].nik})
    \/ ValDept(Checker)
    \/ ValConfig(Checker)
    \/ Finish(Checker)
    \/ Quiet /\ AdminUpdateConfig("Operational", {1}, FormatPatterns)
    \/ Quiet /\ AdminUpdateFormat("Operational", FormatPrefixes, FormatLengths)

SpecRoundTrip == Init /\ [][NextRoundTrip]_vars

(* SpecCalc: payroll calculations, one at a time, over any table of          *)
(* components and any salary row.                                            *)

OneCalc == "k1"

NextCalc ==
    \/ CalcStart(OneCalc, CalcRequests)
    \/ CalcComponents(OneCalc)
    \/ CalcEmployee(OneCalc)
    \/ CalcSalary(OneCalc)
    \/ CalcFinish(OneCalc)

SpecCalc == InitCalc /\ [][NextCalc]_vars

(* SpecCalcTwice: two calculations with complete requests, side by side and  *)
(* one after another while time passes.                                      *)

RepeatedRequests ==
    [employee_id : StaffIds, basic_salary : {Num(1500)},
     manual_deductions : {NoManual,
                          [given |-> TRUE, kasbon |-> Num(20), telat |-> Num(10),
                           angsuran_kredit |-> Num(5)]}]

NextCalcTwice ==
    \/ \E p \in CalcProcs : CalcStart(p, RepeatedRequests)
    \/ \E p \in CalcProcs : CalcComponents(p)
    \/ \E p \in CalcProcs : CalcEmployee(p)
    \/ \E p \in CalcProcs : CalcSalary(p)
    \/ \E p \in CalcProcs : CalcFinish(p)
    \/ CalcTick

SpecCalcTwice == InitCalc /\ [][NextCalcTwice]_vars

(* SpecCalcPair: two calculations side by side whose requests hold           *)
(* different basic_salary inputs.                                            *)

SalaryInputs ==
    [employee_id : StaffIds, basic_salary : {Num(1000), Num(1500)},
     manual_deductions : {[given |-> TRUE, kasbon |-> Num(20), telat |-> Num(10),
                           angsuran_kredit |-> Num(5)]}]

NextCalcPair ==
    \/ \E p \in CalcProcs : CalcStart(p, SalaryInputs)
    \/ \E p \in CalcProcs : CalcComponents(p)
    \/ \E p \in CalcProcs : CalcEmployee(p)
    \/ \E p \in CalcProcs : CalcSalary(p)
    \/ \E p \in CalcProcs : CalcFinish(p)

SpecCalcPair == InitCalc /\ [][NextCalcPair]_vars

(* SpecLeave: an employee files leave requests and two approvers act on     *)
(* them at the same time.                                                    *)

LeaveRanges == {<<0, 0>>, <<1, 2>>}

NextLeave ==
    \/ \E s \in LeaveProcs :
          LeaveCreateStart(s, StaffIds, {"Tahunan"}, LeaveRanges, {"Liburan"}, {None})
    \/ \E s \in LeaveProcs : LeaveCreateOverlap(s)
    \/ \E s \in LeaveProcs : LeaveCreateQuota(s)
    \/ \E s \in LeaveProcs : LeaveCreateRow(s)
    \/ \E s \in LeaveProcs : LeaveUpdateRead(s, {"APPROVED", "REJECTED"})
    \/ \E s \in LeaveProcs : LeaveUpdateRow(s)
    \/ \E s \in LeaveProcs : LeaveUpdateQuota(s)
    \/ \E s \in LeaveProcs : LeaveUpdateCredit(s)
    \/ \E s \in LeaveProcs : LeaveFinish(s)

SpecLeave == Init /\ [][NextLeave]_vars

(* SpecLeaveDesk: leave requests are filed and their status is updated, one  *)
(* request at a time, beside a request that is already stored and a quota    *)
(* that is partly used or missing.                                           *)

OneLeave   == "u1"
OtherStaff == "e2"    \* another employee, who owns a stored request

StoredLeaves ==
    {NoLeave} \cup
    {[exists |-> TRUE, employee_id |-> e, leave_type |-> "Sakit",
      start_date |-> 1, end_date |-> 2, reason |-> SickReason, status |-> st] :
        e \in StaffIds \cup {OtherStaff}, st \in LeaveStatuses}

QuotaRows ==
    {NoQuota} \cup
    {[exists |-> TRUE, total_quota |-> TotalQuota, used_quota |-> u] :
        u \in 0..TotalQuota}

CreateRanges == {<<0, 0>>, <<2, 3>>, <<3, 4>>, <<0, 4>>}
CreateTypes  == {"tahunan", "Tahunan", "Sakit"}

InitLeaveDesk ==
    /\ cfg = InitCfg
    /\ employees = <<>>
    /\ clock = 0
    /\ proc = [p \in Procs |-> IdleProc]
    /\ bulk = IdleBulk
    /\ \E r \in StoredLeaves :
          leaves = [i \in Range(LeaveIds) |-> IF i = LeaveIds[1] THEN r ELSE NoLeave]
    /\ quota \in [StaffIds -> QuotaRows]
    /\ lproc = [s \in LeaveProcs |-> IdleLeaveProc]
    /\ credited = [i \in Range(LeaveIds) |-> 0]
    /\ tz = 0
    /\ payrolls = [i \in Range(PayrollIds) |-> NoPayroll]
    /\ pproc = [s \in PayProcs |-> IdlePayProc]
    /\ components = <<>>
    /\ salary = [e \in StaffIds |-> NoSalary]
    /\ cproc = [p \in CalcProcs |-> IdleCalcProc]

NextLeaveDesk ==
    \/ LeaveCreateStart(OneLeave, StaffIds, CreateTypes, CreateRanges, {"Liburan"}, {None})
    \/ LeaveCreateOverlap(OneLeave)
    \/ LeaveCreateQuota(OneLeave)
    \/ LeaveCreateRow(OneLeave)
    \/ LeaveUpdateRead(OneLeave, LeaveStatuses)
    \/ LeaveUpdateRow(OneLeave)
    \/ LeaveUpdateQuota(OneLeave)
    \/ LeaveUpdateCredit(OneLeave)
    \/ LeaveFinish(OneLeave)

SpecLeaveDesk == InitLeaveDesk /\ [][NextLeaveDesk]_vars

(* SpecPayroll: payrolls are created, edited and deleted.                   *)

NextPayroll ==
    \/ \E s \in PayProcs : PayCreateStart(s, StaffIds, PayDays, {0, 1})
    \/ \E s \in PayProcs : PayCreateGuard(s)
    \/ \E s \in PayProcs : PayCreateComponents(s)
    \/ \E s \in PayProcs : PayCreateRow(s)
    \/ \E s \in PayProcs : PayFinish(s)
    \/ \E id \in Range(PayrollIds) : PayUpdate(id, PayDays)
    \/ \E id \in Range(PayrollIds) : PayDelete(id)
    \/ \E offset \in ServerOffsets : PayServerStart(offset)

SpecPayroll == Init /\ [][NextPayroll]_vars

(* SpecPayAmounts: payrolls created one at a time, with and without BPJS     *)
(* sub-amounts in the body, over any table of components and any salary row. *)

OnePay == "w1"

SubAmounts ==
    {NoSubs,
     [NoSubs EXCEPT !.bpjs_health_company = Num(0), !.jht_company = Num(0),
                    !.subtotal_company = Num(0), !.bpjs_health_employee = Num(0),
                    !.jht_employee = Num(0), !.subtotal_employee = Num(0)],
     [NoSubs EXCEPT !.bpjs_health_company = Num(7)],
     [NoSubs EXCEPT !.subtotal_employee = Num(9)]}

NextPayAmounts ==
    \/ PayCreateStartOf(OnePay, StaffIds, {0}, {1}, {None},
                        {Absent, Num(1000), Num(1500)}, SubAmounts)
    \/ PayCreateGuard(OnePay)
    \/ PayCreateComponents(OnePay)
    \/ PayCreateRow(OnePay)
    \/ PayFinish(OnePay)
    \/ \E id \in Range(PayrollIds) : PayDelete(id)

SpecPayAmounts == InitCalc /\ [][NextPayAmounts]_vars

(* SpecPayStatus: payrolls created, updated, patched and deleted with any    *)
(* status text a body may hold.                                              *)

StatusTexts == PayrollStatuses \cup {None, "DRAFT"}

NextPayStatus ==
    \/ PayCreateStartOf(OnePay, StaffIds, {0, DaysPerMonth}, {1}, StatusTexts,
                        {Absent}, {NoSubs})
    \/ PayCreateGuard(OnePay)
    \/ PayCreateComponents(OnePay)
    \/ PayCreateRow(OnePay)
    \/ PayPatchStart(OnePay, Range(PayrollIds) \cup {UnknownPayroll}, StatusTexts)
    \/ PayPatchFind(OnePay)
    \/ PayPatchUpdate(OnePay)
    \/ PayFinish(OnePay)
    \/ \E id \in Range(PayrollIds) : PayUpdateStatus(id, StatusTexts)
    \/ \E id \in Range(PayrollIds) : PayDelete(id)

SpecPayStatus == Init /\ [][NextPayStatus]_vars

(* SpecBulk: bulk imports, one after another, while the clock advances.     *)

NextBulk ==
    \/ BulkStart
    \/ BulkNext
    \/ BulkUser
    \/ BulkExisting
    \/ BulkDept
    \/ BulkConfig
    \/ BulkUpdate
    \/ BulkCreate
    \/ BulkRetry
    \/ BulkLink
    \/ BulkFinish
    \/ Tick

SpecBulk == Init /\ [][NextBulk]_vars

(* SpecBulkItem: bulk imports of one item each, one after another, within   *)
(* one reading of the millisecond clock.                                    *)

NextBulkItem ==
    \/ BulkStartOf({1})
    \/ BulkNext
    \/ BulkUser
    \/ BulkExisting
    \/ BulkDept
    \/ BulkConfig
    \/ BulkUpdate
    \/ BulkCreate
    \/ BulkRetry
    \/ BulkLink
    \/ BulkFinish

SpecBulkItem == Init /\ [][NextBulkItem]_vars

-----------------------------------------------------------------------------
(* Claims about the NIK sequence *)

\* C1: every operation that issues NIKs from a configuration has, when it ends
\* (also on an error), raised the stored current_sequence by one per NIK issued.
C1_CounterRaisedPerIssuedNik ==
    \A p \in Procs :
        (proc[p].pc = "done" /\ proc[p].cfgId # None /\ cfg[proc[p].cfgId].exists)
        => cfg[proc[p].cfgId].current_sequence
             = proc[p].cfgRow.current_sequence + proc[p].nIssued

\* C2: current_sequence of a configuration never decreases, and no two employees
\* hold the same server-issued NIK.
C2_SequenceNeverDecreasesNorReused ==
    [][/\ \A d \in Depts : (cfg[d].exists /\ cfg'[d].exists)
              => cfg'[d].current_sequence >= cfg[d].current_sequence
       /\ \A i, j \in 1..Len(employees') :
              (i # j /\ employees'[i].nik # Null /\ employees'[i].nik # ManualNik)
              => employees'[i].nik # employees'[j].nik]_vars

\* C3: a generate-next request that ends beside another one that was answered from
\* the same read of the same configuration hands out the same NIK and leaves the
\* counter at the read value plus one: the two issuances advance it by 1 only.
C3_RacingRequestsShareNik ==
    [][\A p \in Procs, q \in Procs :
          (/\ p # q
           /\ proc[p].pc = "g_update" /\ proc'[p].pc = "done" /\ proc'[p].status = 200
           /\ proc[q].pc = "done" /\ proc[q].status = 200 /\ proc[q].op = "generate-next"
           /\ proc[q].cfgId = proc[p].cfgId /\ proc[q].cfgRow = proc[p].cfgRow
           /\ proc[p].overlap)
          => /\ proc'[p].nik = proc[q].nik
             /\ cfg'[proc[p].cfgId].current_sequence
                  = proc[p].cfgRow.current_sequence + 1]_vars

\* C3 witness: two answered requests that raced on one configuration carry the
\* same NIK, and the counter stands one above the value both read.
C3_DuplicateNikReached ==
    \E p \in Procs, q \in Procs :
        /\ p # q
        /\ proc[p].pc = "done" /\ proc[p].status = 200 /\ proc[p].op = "generate-next"
        /\ proc[q].pc = "done" /\ proc[q].status = 200 /\ proc[q].op = "generate-next"
        /\ proc[p].overlap
        /\ proc[p].cfgId = proc[q].cfgId /\ proc[p].cfgRow = proc[q].cfgRow
        /\ proc[p].nik = proc[q].nik /\ proc[p].nik # Null
        /\ cfg[proc[p].cfgId].current_sequence = proc[p].cfgRow.current_sequence + 1

\* the default departments the claim names
ClaimedDefaults == {"General", "Operational"}

\* C9 as stated: a request that found no active configuration of its department
\* is served from the active configuration of a default department, General or
\* Operational, and is refused (404, no counter changed) only if neither has one.
C9_FallbackToGeneralOrOperational ==
    [][\A p \in Procs :
          (proc[p].pc = "g_fallback" /\ proc'[p].pc # "g_fallback")
          => IF \E d \in ClaimedDefaults : FindActiveConfig(d) # None
             THEN proc'[p].pc = "g_update" /\ proc'[p].cfgId \in ClaimedDefaults
             ELSE proc'[p].pc = "done" /\ proc'[p].status = 404 /\ cfg' = cfg]_vars

\* C9 amended: the fallback is the active configuration of General alone. The
\* request is then answered from it and writes its counter as the value read
\* plus one, leaving every other configuration alone; without an active General
\* configuration the answer is 404 and no counter changes.
C9_FallbackToGeneral ==
    [][\A p \in Procs :
          /\ (proc[p].pc = "g_fallback" /\ proc'[p].pc # "g_fallback")
             => IF FindActiveConfig(DefaultDept) # None
                THEN /\ proc'[p].pc = "g_update"
                     /\ proc'[p].cfgId = DefaultDept
                     /\ proc'[p].cfgRow = cfg[DefaultDept]
                     /\ cfg' = cfg
                ELSE /\ proc'[p].pc = "done" /\ proc'[p].status = 404
                     /\ proc'[p].nik = Null
                     /\ cfg' = cfg
          /\ (/\ proc[p].pc = "g_update" /\ proc[p].dept # proc[p].cfgId
              /\ proc'[p].pc = "done" /\ proc'[p].status = 200)
             => /\ proc[p].cfgId = DefaultDept
                /\ proc'[p].nik = FormatNik(proc[p].cfgRow)
                /\ cfg'[DefaultDept].current_sequence
                     = proc[p].cfgRow.current_sequence + 1
                /\ \A d \in Depts \ {DefaultDept} : cfg'[d] = cfg[d]]_vars

\* C9 witness: a request for a department without an active configuration was
\* answered with a NIK of the General configuration.
C9_ServedFromGeneral ==
    \E p \in Procs :
        /\ proc[p].pc = "done" /\ proc[p].status = 200 /\ proc[p].op = "generate-next"
        /\ proc[p].dept # DefaultDept /\ proc[p].cfgId = DefaultDept
        /\ proc[p].nik = PrefixOf(DefaultDept) \o PaddedSequence(proc[p].cfgRow)

\* C10: every employee created with a department and without a NIK in the request
\* carries a NIK (issued from the configuration, or the EMP fallback).
C10_AutoNikNeverMissing ==
    \A i \in 1..Len(employees) : employees[i].auto => employees[i].nik # Null

\* C8: a bulk import that has stopped has answered, with one result entry per
\* item of the payload.
C8_OneResultPerItem ==
    bulk.pc \in {"done", "crashed"}
    => (bulk.pc = "done" /\ Len(bulk.results) = bulk.n)

-----------------------------------------------------------------------------
(* Claims about the leave quota *)

\* C4: an approval that read the quota beside another approval writes used_quota
\* as the value it read plus its own days; what the other approval added to the
\* stored value since that read is overwritten, so one increment is lost.
C4_RacingApprovalsLoseIncrement ==
    [][\A s \in LeaveProcs :
          (/\ lproc[s].pc = "u_credit" /\ lproc'[s].pc = "done"
           /\ lproc[s].overlap)
          => LET e == lproc[s].old.employee_id
                 d == InclusiveDays(lproc[s].old.start_date, lproc[s].old.end_date)
             IN  /\ quota'[e].used_quota = lproc[s].read.used_quota + d
                 /\ quota[e].used_quota > lproc[s].read.used_quota
                    => quota'[e].used_quota < quota[e].used_quota + d]_vars

\* C4 witness: two different requests of one employee are APPROVED, each was
\* added to the quota once and no approval is still running, yet used_quota
\* holds the days of only one of them.
C4_IncrementLost ==
    \E i \in Range(LeaveIds), j \in Range(LeaveIds) :
        /\ i # j
        /\ leaves[i].exists /\ leaves[j].exists
        /\ leaves[i].employee_id = leaves[j].employee_id
        /\ leaves[i].status = "APPROVED" /\ leaves[j].status = "APPROVED"
        /\ credited[i] = 1 /\ credited[j] = 1
        /\ \A s \in LeaveProcs : lproc[s].pc \in {"idle", "done"}
        /\ quota[leaves[i].employee_id].used_quota
             = InclusiveDays(leaves[i].start_date, leaves[i].end_date)

\* the days of the first k requests that were added to the quota at least once,
\* each request counted once
RECURSIVE DaysCreditedOnce(_)
DaysCreditedOnce(k) ==
    IF k = 0 THEN 0
    ELSE LET r == leaves[LeaveIds[k]]
         IN  DaysCreditedOnce(k - 1)
             + (IF credited[LeaveIds[k]] > 0
                THEN InclusiveDays(r.start_date, r.end_date) ELSE 0)

\* C5: whatever status updates the leave requests (none with reason "Sakit")
\* receive, used_quota holds the day count of a request at most once: it never
\* exceeds the sum, over the requests that were approved, of their day counts.
C5_CreditedExactlyOnce ==
    \A e \in StaffIds :
        quota[e].used_quota <= DaysCreditedOnce(Len(LeaveIds))

-----------------------------------------------------------------------------
(* Claims about payrolls *)

\* C6: in every reachable state an employee has at most one payroll per calendar
\* month of payment_date.
C6_OnePayrollPerMonth ==
    \A i \in Range(PayrollIds), j \in Range(PayrollIds) :
        (/\ i # j
         /\ payrolls[i].exists /\ payrolls[j].exists
         /\ payrolls[i].employee_id = payrolls[j].employee_id
         /\ payrolls[i].payment_date # NoDate /\ payrolls[j].payment_date # NoDate)
        => CalendarMonth(payrolls[i].payment_date)
             # CalendarMonth(payrolls[j].payment_date)

\* C7: when the monthly guard of a create request runs while the employee has a
\* payroll whose payment_date lies in the calendar month of the requested
\* payment_date, the request is answered 409 and no payroll row is written.
C7_SameMonthCreateRejected ==
    [][\A s \in PayProcs :
          (/\ pproc[s].pc = "p_guard" /\ pproc'[s].pc # "p_guard"
           /\ pproc[s].req.payment_date # NoDate
           /\ HasPayrollInMonthOf(pproc[s].req.employee_id, pproc[s].req.payment_date))
          => /\ pproc'[s].pc = "done" /\ pproc'[s].code = 409
             /\ payrolls' = payrolls]_vars

-----------------------------------------------------------------------------
(* Claims about the bulk import's retry *)

\* C11: a create that fails on a unique constraint while the item carries a NIK
\* is followed by one more create, with the NIK `EMP` + the last 8 digits of the
\* clock and nothing stored in between; that second create either stores the
\* employee under the fallback NIK or ends the item as failed, and is never
\* followed by another create of the same item.
C11_RetriesOnceWithFallbackNik ==
    [][/\ (bulk.pc = "b_create" /\ bulk'.error = "unique" /\ bulk.nik # Null)
          => /\ bulk'.pc = "b_retry"
             /\ bulk'.nik = <<"E", "M", "P">> \o SliceLast(NowString, 8)
             /\ bulk'.results = bulk.results
             /\ bulk'.item = bulk.item
             /\ employees' = employees
       /\ (bulk.pc = "b_create" /\ bulk'.pc = "b_retry")
          => (bulk'.error = "unique" /\ bulk.nik # Null)
       /\ (bulk.pc = "b_retry" /\ bulk'.pc # "b_retry")
          => \/ /\ bulk'.pc = "b_link"
                /\ Len(employees') = Len(employees) + 1
                /\ employees'[Len(employees')].nik = bulk.nik
                /\ employees'[Len(employees')].email = bulk.item.email
             \/ /\ bulk'.pc \in {"b_next", "b_user", "done"}
                /\ employees' = employees
                /\ Len(bulk'.results) >= 1
                /\ ~bulk'.results[bulk.idx]
                /\ bulk'.error = "retry"
       /\ bulk'.pc = "b_retry" => bulk.pc = "b_create"]_vars

\* C11 witness: the second create of an item stored the employee under the
\* timestamp NIK.
C11_RetryStoredFallbackNik ==
    /\ bulk.pc = "b_link" /\ bulk.retried
    /\ Len(employees) >= 1
    /\ employees[Len(employees)].email = bulk.item.email
    /\ employees[Len(employees)].nik = <<"E", "M", "P">> \o SliceLast(NowString, 8)

-----------------------------------------------------------------------------
(* Claims about the NIK format *)

StartsWith(s, sub) == Len(s) >= Len(sub) /\ SubSeq(s, 1, Len(sub)) = sub

\* the pattern with its first {prefix} and its first {sequence} replaced by the
\* prefix and by the padded sequence; text brought in by a replacement is not
\* looked at again
RECURSIVE SubstitutedFrom(_, _, _, _, _)
SubstitutedFrom(pattern, prefix, sequence, prefixDone, sequenceDone) ==
    IF pattern = <<>> THEN <<>>
    ELSE IF ~prefixDone /\ StartsWith(pattern, PrefixPlaceholder)
    THEN prefix \o SubstitutedFrom(SubSeq(pattern, Len(PrefixPlaceholder) + 1, Len(pattern)),
                                   prefix, sequence, TRUE, sequenceDone)
    ELSE IF ~sequenceDone /\ StartsWith(pattern, SequencePlaceholder)
    THEN sequence \o SubstitutedFrom(SubSeq(pattern, Len(SequencePlaceholder) + 1, Len(pattern)),
                                     prefix, sequence, prefixDone, TRUE)
    ELSE <<Head(pattern)>> \o SubstitutedFrom(Tail(pattern), prefix, sequence,
                                              prefixDone, sequenceDone)

Substituted(pattern, prefix, sequence) ==
    SubstitutedFrom(pattern, prefix, sequence, FALSE, FALSE)

HasBothPlaceholders(pattern) ==
    /\ pattern # Null
    /\ Includes(pattern, PrefixPlaceholder)
    /\ Includes(pattern, SequencePlaceholder)

\* C12: the NIK a generate-next request answers with is, for the configuration
\* it read, the format_pattern with its placeholders replaced by the prefix and
\* the zero-padded current_sequence when the pattern holds both placeholders,
\* and the prefix followed by the padded sequence otherwise.
C12_NikFollowsPattern ==
    [][\A p \in Procs :
          (proc[p].pc = "g_update" /\ proc'[p].pc = "done" /\ proc'[p].status = 200)
          => LET row == proc[p].cfgRow
                 sequence == PadStart(NumToString(row.current_sequence),
                                      row.sequence_length)
             IN  proc'[p].nik =
                    IF HasBothPlaceholders(row.format_pattern)
                    THEN Substituted(row.format_pattern, row.prefix, sequence)
                    ELSE row.prefix \o sequence]_vars

\* C14: for every stored configuration whose pattern holds both placeholders,
\* replacing {prefix} and then {sequence} gives the same NIK as replacing
\* {sequence} and then {prefix}.
C14_ReplacementOrderIndependent ==
    \A d \in Depts :
        (cfg[d].exists /\ HasBothPlaceholders(cfg[d].format_pattern))
        => Replace(Replace(cfg[d].format_pattern, PrefixPlaceholder, cfg[d].prefix),
                   SequencePlaceholder, PaddedSequence(cfg[d]))
           = Replace(Replace(cfg[d].format_pattern, SequencePlaceholder,
                             PaddedSequence(cfg[d])),
                     PrefixPlaceholder, cfg[d].prefix)

\* the strings made of a prefix and three digits
WithThreeDigits(prefix) ==
    {prefix \o <<a, b, c>> : a \in Range(Digits), b \in Range(Digits), c \in Range(Digits)}

\* C13: a validate-format request for "Operational" answered from an active
\* configuration with prefix "OPS19" reports valid exactly for "OPS" + 3 digits
\* and "OPS19" + 3 digits, whatever the format_pattern; a request for another
\* department reports valid only for input that holds that department's prefix.
C13_OperationalAcceptsBothFormats ==
    [][\A p \in Procs :
          (/\ proc[p].pc = "v_config" /\ proc'[p].pc = "done" /\ proc'[p].status = 200)
          => LET row == proc'[p].cfgRow
                 input == proc[p].nik
             IN  /\ (proc[p].dept = "Operational" /\ row.prefix = Ops19)
                    => (proc'[p].valid
                        <=> input \in WithThreeDigits(Ops) \cup WithThreeDigits(Ops19))
                 /\ (proc[p].dept # "Operational" /\ proc'[p].valid)
                    => Includes(input, row.prefix)]_vars

-----------------------------------------------------------------------------
(* Claims about the payroll calculator *)

Answered(p) == cproc[p].pc = "done" /\ cproc[p].code = 200

\* a monetary value of a request: given as a number, or left out
NumberOrLeftOut(v) == v.t \in {"number", "undefined"}

\* a request whose monetary values are all valid
ValidAmounts(req) ==
    /\ IsNumber(req.basic_salary)
    /\ NumberOrLeftOut(req.manual_deductions.kasbon)
    /\ NumberOrLeftOut(req.manual_deductions.telat)
    /\ NumberOrLeftOut(req.manual_deductions.angsuran_kredit)

\* a stored or given value as a number, nothing counting as 0
OrZero(v) == IF v.t = "number" THEN v.n ELSE 0

\* C15: every breakdown answered for a request with valid amounts holds numbers
\* with net_salary = total_pendapatan - total_deduction and
\* total_deduction = total_auto_deduction + total_manual_deduction.
C15_NetSalaryIdentity ==
    \A p \in CalcProcs :
        (Answered(p) /\ ValidAmounts(cproc[p].req))
        => LET t == cproc[p].totals
           IN  /\ IsNumber(t.net_salary) /\ IsNumber(t.total_pendapatan)
               /\ IsNumber(t.total_deduction) /\ IsNumber(t.total_auto_deduction)
               /\ IsNumber(t.total_manual_deduction)
               /\ t.net_salary.n = t.total_pendapatan.n - t.total_deduction.n
               /\ t.total_deduction.n
                     = t.total_auto_deduction.n + t.total_manual_deduction.n

\* the rows the calculator may not touch
Persisted == <<components, salary, payrolls, cfg, employees, leaves, quota>>

\* C16: no step of a calculation, answered or failed, changes a persisted row,
\* and two calculations answered for the same request from the same rows
\* hold the same totals.
C16_CalculatorReadOnly ==
    /\ [][cproc' # cproc => Persisted' = Persisted]_vars
    /\ [](\A p, q \in CalcProcs :
             (/\ Answered(p) /\ Answered(q)
              /\ cproc[p].req = cproc[q].req
              /\ cproc[p].comps = cproc[q].comps
              /\ cproc[p].sal = cproc[q].sal)
             => cproc[p].totals = cproc[q].totals)

\* C16 witness: two calculations of one request are answered, the second at a
\* later reading of the clock than the first could have had
C16_SameRequestAnsweredTwice ==
    /\ \A p \in CalcProcs : Answered(p) /\ cproc[p].req.manual_deductions.given
    /\ cproc["k1"].req = cproc["k2"].req
    /\ cproc["k1"].totals = cproc["k2"].totals
    /\ clock = MaxClock

\* the amount a component must contribute
ClaimedAmount(c, pure) ==
    IF OrZero(c.percentage) > 0 THEN (pure * OrZero(c.percentage)) \div 100
    ELSE IF OrZero(c.amount) > 0 THEN OrZero(c.amount)
    ELSE 0

\* the sum of the amounts of the active components of one type among the first
\* k stored rows
RECURSIVE ClaimedTotal(_, _, _)
ClaimedTotal(k, type, pure) ==
    IF k = 0 THEN 0
    ELSE ClaimedTotal(k - 1, type, pure)
         + (IF components[k].is_active /\ components[k].type = type
            THEN ClaimedAmount(components[k], pure) ELSE 0)

\* C17: in every answered breakdown total_income is the sum, over the stored
\* components that are active and of type income, of percentage of the pure
\* basic salary when the percentage is positive, else the flat amount when
\* positive, else 0; total_auto_deduction is the same sum over type deduction.
C17_ActiveComponentsContribute ==
    \A p \in CalcProcs :
        Answered(p)
        => LET pure == OrZero(salary[cproc[p].req.employee_id].basic_salary)
           IN  /\ cproc[p].totals.total_income
                     = Num(ClaimedTotal(Len(components), "income", pure))
               /\ cproc[p].totals.total_auto_deduction
                     = Num(ClaimedTotal(Len(components), "deduction", pure))

\* C17 witness: a breakdown answered while an inactive component is stored
\* beside an active one that has both a percentage and an amount
C17_PercentageWonInactiveSkipped ==
    /\ Answered(OneCalc)
    /\ \E i \in DOMAIN components : ~components[i].is_active
    /\ \E i \in DOMAIN components :
          /\ components[i].is_active /\ components[i].type = "income"
          /\ OrZero(components[i].percentage) > 0 /\ OrZero(components[i].amount) > 0
    /\ cproc[OneCalc].totals.total_income = Num(50)

C19_AbsentDeductionIsZero ==
    \A p \in CalcProcs :
        (Answered(p) /\ ValidAmounts(cproc[p].req))
        => cproc[p].totals.total_manual_deduction
              = Num(OrZero(cproc[p].req.manual_deductions.kasbon)
                    + OrZero(cproc[p].req.manual_deductions.telat)
                    + OrZero(cproc[p].req.manual_deductions.angsuran_kredit))

\* C20: a calculation whose request holds a monetary value that is not a
\* number is never answered with totals.
C20_UnparsableAmountRejected ==
    \A p \in CalcProcs :
        (/\ cproc[p].pc = "done"
         /\ Text \in {cproc[p].req.basic_salary, cproc[p].req.manual_deductions.kasbon,
                      cproc[p].req.manual_deductions.telat,
                      cproc[p].req.manual_deductions.angsuran_kredit})
        => cproc[p].code # 200

-----------------------------------------------------------------------------
(* Claims about payroll creation and status *)

\* the amount the calculator computes for the active component of a name and
\* type, from the employee's salary row
CalculatedAmount(name, type, e) ==
    LET found == SelectSeq(ActiveComponents, LAMBDA c : c.name = name /\ c.type = type)
    IN  IF found = <<>> THEN Num(0)
        ELSE Contribution(found[1], NumberOrZero(salary[e].basic_salary))

\* C21: when a payroll is stored for an employee with a salary row, every
\* BPJS sub-amount that the body gave as zero or left out is stored as the
\* amount the calculator computes for that component, and a subtotal the body
\* left out, over sub-amounts it left out, is the sum of those amounts.
C21_CreationAgreesWithCalculator ==
    [][\A s \in PayProcs :
          (/\ pproc[s].pc = "p_create" /\ pproc'[s].code = 201
           /\ salary[pproc[s].req.employee_id].exists)
          => LET req == pproc[s].req
                 e   == req.employee_id
                 row == payrolls'[FreePayrollId].subs
             IN  /\ Falsy(req.subs.bpjs_health_company)
                    => row.bpjs_health_company = CalculatedAmount(HealthCompany, "income", e)
                 /\ Falsy(req.subs.jht_company)
                    => row.jht_company = CalculatedAmount(JhtCompany, "income", e)
                 /\ Falsy(req.subs.bpjs_health_employee)
                    => row.bpjs_health_employee
                          = CalculatedAmount(HealthEmployee, "deduction", e)
                 /\ Falsy(req.subs.jht_employee)
                    => row.jht_employee = CalculatedAmount(JhtEmployee, "deduction", e)
                 /\ (/\ Falsy(req.subs.subtotal_company)
                     /\ Falsy(req.subs.bpjs_health_company) /\ Falsy(req.subs.jht_company))
                    => row.subtotal_company
                          = Plus(CalculatedAmount(HealthCompany, "income", e),
                                 CalculatedAmount(JhtCompany, "income", e))]_vars

\* C25: the status of every payroll row is one of PENDING, APPROVED, PAID,
\* REJECTED, UNPAID.
C25_PayrollStatusInWorkflow ==
    \A i \in DOMAIN PayrollIds :
        payrolls[PayrollIds[i]].exists
        => payrolls[PayrollIds[i]].status
              \in {"PENDING", "APPROVED", "PAID", "REJECTED", "UNPAID"}

\* the days start..end and the days of row r have a day in common
SharesDay(r, start, end) ==
    \E d \in start..end : r.start_date <= d /\ d <= r.end_date

\* a stored PENDING or APPROVED request of employee e shares a day with start..end
Blocked(e, start, end) ==
    \E i \in DOMAIN LeaveIds :
        LET r == leaves[LeaveIds[i]]
        IN  /\ r.exists /\ r.employee_id = e
            /\ r.status \in {"PENDING", "APPROVED"}
            /\ SharesDay(r, start, end)

\* C22: the overlap check of a creation answers 400 exactly when the employee
\* has a stored PENDING or APPROVED request that shares a day with the new
\* range; requests of other employees and REJECTED requests do not block
C22_RejectedExactlyOnOverlap ==
    [][\A s \in LeaveProcs :
          lproc[s].pc = "c_overlap"
          => LET r == lproc[s].req
             IN  (lproc'[s].pc = "done" /\ lproc'[s].code = 400)
                 <=> Blocked(r.employee_id, r.start_date, r.end_date)]_vars

\* C22 witness: beside an APPROVED request for days 1-2 a request for days 3-4
\* was stored, and a later one was answered 400 by the overlap check (no quota
\* row exists that could have rejected it)
C22_AdjacentStoredOverlapRejected ==
    /\ leaves[LeaveIds[1]].exists /\ leaves[LeaveIds[1]].status = "APPROVED"
    /\ leaves[LeaveIds[1]].employee_id \in StaffIds
    /\ leaves[LeaveIds[2]].exists /\ leaves[LeaveIds[2]].start_date = 3
    /\ \A e \in StaffIds : ~quota[e].exists
    /\ lproc[OneLeave].pc = "done" /\ lproc[OneLeave].code = 400

\* the leave type is the annual one, in whatever case it is written
IsAnnual(leave_type) == leave_type \in {"tahunan", "Tahunan", "TAHUNAN"}

\* C23: with a quota row for the employee, the quota check of a creation
\* answers 400 for an annual request whenever total_quota - used_quota is less
\* than the inclusive day count, and never answers 400 for another leave type
\* (nor for an annual request that fits)
C23_AnnualRejectedWhenQuotaShort ==
    [][\A s \in LeaveProcs :
          (lproc[s].pc = "c_quota" /\ quota[lproc[s].req.employee_id].exists)
          => LET r == lproc[s].req
                 q == quota[r.employee_id]
                 days == (r.end_date - r.start_date) + 1
             IN  (lproc'[s].pc = "done" /\ lproc'[s].code = 400)
                 <=> (IsAnnual(r.leave_type) /\ q.total_quota - q.used_quota < days)]_vars

\* C23 witness: with the quota used up, a one-day request of type "Sakit" was
\* stored as the only row of the table, and a later request was answered 400
C23_SickStoredAnnualRejected ==
    /\ \A e \in StaffIds : quota[e].exists /\ quota[e].used_quota = quota[e].total_quota
    /\ leaves[LeaveIds[1]].exists /\ leaves[LeaveIds[1]].leave_type = "Sakit"
    /\ leaves[LeaveIds[1]].reason = "Liburan"
    /\ leaves[LeaveIds[1]].start_date = 2
    /\ ~leaves[LeaveIds[2]].exists
    /\ lproc[OneLeave].pc = "done" /\ lproc[OneLeave].code = 400

\* C24: an update that moves a stored request from a status other than
\* APPROVED to APPROVED adds the request's inclusive day count to used_quota
\* of the employee's quota row when the reason is not "Sakit"; an update of a
\* request with reason "Sakit", or one that does not reach APPROVED, leaves
\* used_quota as it is; nothing else changes the quota
C24_ApprovalAddsDays ==
    [][/\ \A s \in LeaveProcs :
            (lproc[s].pc = "u_update" /\ leaves[lproc[s].id].exists)
            => LET row == leaves[lproc[s].id]
               IN  /\ quota' = quota
                   /\ lproc'[s].pc =
                         IF /\ lproc[s].status = "APPROVED"
                            /\ row.status # "APPROVED"
                            /\ row.reason # "Sakit"
                         THEN "u_quota" ELSE "done"
       /\ \A s \in LeaveProcs :
            (lproc[s].pc = "u_quota" /\ quota[leaves[lproc[s].id].employee_id].exists)
            => (quota' = quota /\ lproc'[s].pc = "u_credit")
       /\ \A s \in LeaveProcs :
            lproc[s].pc = "u_credit"
            => LET row == leaves[lproc[s].id]
                   e   == row.employee_id
               IN  /\ lproc'[s].pc = "done" /\ lproc'[s].code = 200
                   /\ quota' = [quota EXCEPT ![e].used_quota =
                                   @ + (row.end_date - row.start_date) + 1]
       /\ (quota' # quota) => \E s \in LeaveProcs : lproc[s].pc = "u_credit"]_vars

\* C24 witness: a request of two days with another reason was approved and
\* used_quota is 2, and the last update, of an APPROVED request with reason
\* "Sakit", was answered 200 without the request ever being added to the quota
C24_ApprovedAddedSickNot ==
    /\ leaves[LeaveIds[2]].exists /\ leaves[LeaveIds[2]].status = "APPROVED"
    /\ leaves[LeaveIds[2]].reason # SickReason
    /\ leaves[LeaveIds[2]].end_date - leaves[LeaveIds[2]].start_date = 1
    /\ credited[LeaveIds[2]] = 1
    /\ \A e \in StaffIds : quota[e].exists /\ quota[e].used_quota = 2
    /\ leaves[LeaveIds[1]].exists /\ leaves[LeaveIds[1]].status = "APPROVED"
    /\ leaves[LeaveIds[1]].reason = SickReason
    /\ leaves[LeaveIds[1]].employee_id \in StaffIds
    /\ credited[LeaveIds[1]] = 0
    /\ lproc[OneLeave].pc = "done" /\ lproc[OneLeave].op = "update"
    /\ lproc[OneLeave].id = LeaveIds[1] /\ lproc[OneLeave].code = 200

\* C29: no employee has two requests with status PENDING or APPROVED whose
\* inclusive ranges share a day
C29_NoOverlappingActiveRequests ==
    \A i, j \in DOMAIN LeaveIds :
        LET r == leaves[LeaveIds[i]]
            o == leaves[LeaveIds[j]]
        IN  (/\ i # j /\ r.exists /\ o.exists
             /\ r.employee_id = o.employee_id
             /\ r.status \in {"PENDING", "APPROVED"}
             /\ o.status \in {"PENDING", "APPROVED"})
            => ~SharesDay(r, o.start_date, o.end_date)

\* C30: used_quota of a quota row never exceeds its total_quota
C30_UsedQuotaWithinTotal ==
    \A e \in StaffIds :
        quota[e].exists => quota[e].used_quota <= quota[e].total_quota

\* C26: the NIK that POST /api/employees and fix-departments issue from a
\* configuration row is the string generate-next (and the bulk import)
\* formats from the same row
C26_PathsIssueSameNik ==
    [][\A p \in Procs :
          /\ (proc[p].pc = "e_lookup" /\ proc'[p].pc = "e_update")
             => (/\ proc'[p].nik = FormatNik(proc'[p].cfgRow)
                 /\ proc'[p].nik = BulkNik(proc'[p].cfgRow))
          /\ (proc[p].pc = "f_loop" /\ proc[p].todo # <<>> /\ proc'[p].pc = "f_loop")
             => employees'[Head(proc[p].todo)].nik =
                   FormatNik([proc[p].cfgRow EXCEPT !.current_sequence = proc[p].cur])]_vars

\* C27: the NIK that generate-next returned from a department's own active
\* configuration is reported valid by validate-format for that department,
\* when the configuration has not been edited in between
C27_IssuedNikIsValid ==
    (/\ proc[Solo].pc = "done" /\ proc[Solo].op = "generate-next"
     /\ proc[Solo].status = 200 /\ proc[Solo].cfgId = proc[Solo].dept
     /\ proc[Checker].pc = "done" /\ proc[Checker].op = "validate-format"
     /\ proc[Checker].status = 200
     /\ proc[Checker].dept = proc[Solo].dept
     /\ proc[Checker].nik = proc[Solo].nik
     /\ proc[Checker].cfgRow =
           [proc[Solo].cfgRow EXCEPT !.current_sequence = @ + 1])
    => proc[Checker].valid

\* the answer without the echoed basic_salary
WithoutEcho(totals) == [totals EXCEPT !.basic_salary = Absent]

====
